---- MODULE Spec2Model ----
(***************************************************************************)
(* A model of the APA 7 format validator (lexuray/formatvalidatorv2):      *)
(*   - the server route  src/pages/api/validate.js  (handler + APAValidator)*)
(*   - the client page   src/pages/index.js  (two ClientAPAValidator       *)
(*     variants: lines 340-761 read headings from document.xml, lines      *)
(*     1102-1416 count headings in the text).                              *)
(*                                                                         *)
(* A document package is modelled by its parts.  Text is a sequence of     *)
(* tokens; every token stands for one fixed literal string (table below),  *)
(* and every regular expression of the source is evaluated on the token    *)
(* sequence the way the JavaScript engine evaluates it on the literals.    *)
(***************************************************************************)
EXTENDS Integers, Sequences, FiniteSets, TLC

VARIABLES request, response, extracted, tmpFile, analysis, inst, memo, run, ui

vars == <<request, response, extracted, tmpFile, analysis, inst, memo, run, ui>>

(***************************************************************************)
(* Tokens.  [k |-> kind, n |-> number].                                    *)
(*   W(n)   n >= 1 words "lorem lorem ... lorem" joined by single spaces   *)
(*   SP " "   NL "\n"   GAP 48 spaces   DQ the double quote character      *)
(*   BodyA / BodyB   two different 25-character quote bodies (4 words)     *)
(*   BodyS  a 10-character quote body (2 words)                            *)
(*   Cit "(Smith, 2020)"   CitP "(Smith, 2020, p. 4)"                      *)
(*   Name "Jane Doe"   ByName "By Jane Doe"   Author "Author"              *)
(*   RefA "Adams, J. (2020). A study of things. Press."  RefB "Brown, ..." *)
(*   RefC "Clark, ..."                                                     *)
(*   the section words Abstract, Keywords, Introduction, Method,           *)
(*   References, Appendix, University, each the capitalised word itself.   *)
(***************************************************************************)
T(kind) == [k |-> kind, n |-> 0]
W(n) == [k |-> "w", n |-> n]

SP == T("SP")
NL == T("NL")
DQ == T("DQ")

SectionWords == {"Abstract", "Keywords", "Introduction", "Method",
                 "References", "Appendix", "University"}

IsSpace(t) == t.k \in {"SP", "NL", "GAP"}

\* String.length of the token's literal.
TokChars(t) ==
  CASE t.k = "w" -> 6 * t.n - 1
    [] t.k \in {"SP", "NL", "DQ"} -> 1
    [] t.k = "GAP" -> 48
    [] t.k \in {"BodyA", "BodyB"} -> 25
    [] t.k = "BodyS" -> 10
    [] t.k = "Cit" -> 13
    [] t.k = "CitP" -> 19
    [] t.k = "Name" -> 8
    [] t.k = "ByName" -> 11
    [] t.k = "Author" -> 6
    [] t.k \in {"RefA", "RefB", "RefC"} -> 43
    [] t.k \in {"Abstract", "Keywords", "Appendix"} -> 8
    [] t.k = "Introduction" -> 12
    [] t.k = "Method" -> 6
    [] t.k \in {"References", "University"} -> 10
    [] OTHER -> 1

\* Number of whitespace-separated words inside the token's literal.
TokWords(t) ==
  CASE t.k = "w" -> t.n
    [] IsSpace(t) -> 0
    [] t.k \in {"BodyA", "BodyB", "CitP"} -> 4
    [] t.k \in {"BodyS", "Cit", "Name"} -> 2
    [] t.k = "ByName" -> 3
    [] t.k \in {"RefA", "RefB", "RefC"} -> 8
    [] OTHER -> 1

RECURSIVE Chars(_)
Chars(s) == IF s = <<>> THEN 0 ELSE TokChars(Head(s)) + Chars(Tail(s))

RECURSIVE Concat(_)
Concat(ss) == IF ss = <<>> THEN <<>> ELSE Head(ss) \o Concat(Tail(ss))

Max(a, b) == IF a >= b THEN a ELSE b
Min(a, b) == IF a <= b THEN a ELSE b

\* Smallest element of a non-empty set of integers.
Least(S) == CHOOSE x \in S : \A y \in S : x <= y

\* String.prototype.trim
RECURSIVE TrimLeft(_)
TrimLeft(s) == IF s # <<>> /\ IsSpace(Head(s)) THEN TrimLeft(Tail(s)) ELSE s

RECURSIVE TrimRight(_)
TrimRight(s) ==
  IF s # <<>> /\ IsSpace(s[Len(s)]) THEN TrimRight(SubSeq(s, 1, Len(s) - 1)) ELSE s

Trim(s) == TrimRight(TrimLeft(s))

\* text.substring(0, limit): the tokens that lie wholly inside the first
\* `limit` characters (a token cut by the limit loses its tail, so none of the
\* patterns below can match it; its visible characters still count in length).
RECURSIVE WholePrefix(_, _)
WholePrefix(s, limit) ==
  IF s = <<>> \/ TokChars(Head(s)) > limit THEN <<>>
  ELSE <<Head(s)>> \o WholePrefix(Tail(s), limit - TokChars(Head(s)))

\* text.substring(0, limit).trim().length
PrefixTrimLength(s, limit) ==
  LET whole == WholePrefix(s, limit)
      cut == Len(whole) < Len(s)
      cutTok == s[Len(whole) + 1]
  IN IF cut /\ ~IsSpace(cutTok)
       THEN limit - Chars(SubSeq(whole, 1, Len(whole) - Len(TrimLeft(whole))))
       ELSE Chars(Trim(whole))

\* Index of the first token at or after position i that satisfies kind set K,
\* 0 when there is none.
FirstIn(s, i, K) ==
  LET hits == {j \in i..Len(s) : s[j].k \in K}
  IN IF hits = {} THEN 0 ELSE Least(hits)

\* str.split(/\s+/): the maximal runs of non-space tokens; tokens that touch
\* without a space between them are glued, the last word of one and the first
\* word of the next forming a single word.
RECURSIVE SplitWords(_)
SplitWords(s) ==
  IF s = <<>> THEN 0
  ELSE IF IsSpace(Head(s)) THEN SplitWords(Tail(s))
  ELSE IF Len(s) >= 2 /\ ~IsSpace(s[2])
         THEN TokWords(Head(s)) - 1 + SplitWords(Tail(s))
         ELSE TokWords(Head(s)) + SplitWords(Tail(s))

(***************************************************************************)
(* The document package.                                                   *)
(*   style name  [word, sep, digits, suffix]: the literal                  *)
(*        word sep digits suffix, e.g. "Heading1" = ["Heading","",1,""],   *)
(*        "heading 2", "Heading-2", "Heading2Char", "HEADING2", "Normal"   *)
(*        (word = "": the name does not contain the word; digits = -1:     *)
(*        none).  A paragraph without w:pStyle has the style NoStyle.      *)
(*   paragraph   [style, toks, bold, jc]: its w:pStyle, the content of its *)
(*        w:t nodes, whether it holds a w:b element, its w:jc value.       *)
(*   document.xml [empty, paras, font, spacing, signals]; `empty` says the *)
(*        part is absent (the zip library then yields the empty string);   *)
(*        font is the first w:ascii value in the part (NoFont for none);   *)
(*        spacing is the set of its w:spacing elements [line, lineRule];   *)
(*        signals is the set of page-number constructs it contains.        *)
(*   styles.xml  [empty, fonts, sizes, spacing]: fonts lists the w:ascii   *)
(*        of its w:rFonts elements in order (NoFont when the attribute is  *)
(*        missing), sizes the w:val of its w:sz elements (half-points).    *)
(*   header1.xml / footer1.xml  [empty, signals].                          *)
(*   package     [zip, document, styles, header, footer, htmlDouble]:      *)
(*        zip says the bytes are a zip archive; htmlDouble that the HTML   *)
(*        rendering carries "line-height:2" or "line-height: 2".           *)
(***************************************************************************)
\* A font family [base, form]: see the findings below.
Font(base, form) == [base |-> base, form |-> form]

NoFont == Font("", "exact")

Style(word, sep, digits, suffix) ==
  [word |-> word, sep |-> sep, digits |-> digits, suffix |-> suffix]

NoStyle == Style("", "", -1, "")
Normal == Style("", "", -1, "Normal")
HeadingStyle(n) == Style("Heading", "", n, "")

Para(style, toks, bold, jc) ==
  [style |-> style, toks |-> toks, bold |-> bold, jc |-> jc]

Body(toks) == Para(Normal, toks, FALSE, "none")

\* Page-number constructs:
\*   fieldPAGE   <w:fldChar w:fldCharType="begin"/> .. PAGE .. "end"
\*   pgNum       a <w:pgNum/> element
\*   simplePAGE  <w:fldSimple w:instr=" PAGE "/>
\*   fieldTOC    a w:fldChar begin/end pair around another instruction
\*   wordPage    the lower-case letters "page" in ordinary text
PageSignals == {"fieldPAGE", "pgNum", "simplePAGE", "fieldTOC", "wordPage"}

DocumentXml(paras, font, spacing, signals) ==
  [empty |-> FALSE, paras |-> paras, font |-> font, spacing |-> spacing,
   signals |-> signals]

StylesXml(fonts, sizes, spacing) ==
  [empty |-> FALSE, fonts |-> fonts, sizes |-> sizes, spacing |-> spacing]

PartXml(signals) == [empty |-> FALSE, signals |-> signals]

\* What zip.readAsText / docx.file(..)?.async('string') || '' give for a part
\* that is not in the archive: the empty string.
NoDocumentXml ==
  [empty |-> TRUE, paras |-> <<>>, font |-> NoFont, spacing |-> {},
   signals |-> {}]
NoStylesXml == [empty |-> TRUE, fonts |-> <<>>, sizes |-> <<>>, spacing |-> {}]
NoPartXml == [empty |-> TRUE, signals |-> {}]

Package(document, styles, header, footer, htmlDouble) ==
  [zip |-> TRUE, document |-> document, styles |-> styles, header |-> header,
   footer |-> footer, htmlDouble |-> htmlDouble]

\* Bytes that are not a zip archive.
NotAZip ==
  [zip |-> FALSE, document |-> NoDocumentXml, styles |-> NoStylesXml,
   header |-> NoPartXml, footer |-> NoPartXml, htmlDouble |-> FALSE]

(***************************************************************************)
(* Findings.  A passing finding is [message, n, text, font]; an issue is   *)
(* [id, severity, message, n, text, font].  message names the template     *)
(* string; n, text and font are the values interpolated into message or    *)
(* details (n = -1, text = <<>>, font = NoFont when the template has       *)
(* none).  An id is <<name>> or <<name, index>>, the latter for the ids    *)
(* built as `name-${index}`.                                               *)
(*                                                                         *)
(* A font family is [base, form]: the literal is base itself ("exact"),    *)
(* base in lower case ("lower"), or base followed by another word, as in   *)
(* "Arial Narrow" ("extended").  No base name is part of another.          *)
(***************************************************************************)
Pass(message, n, text) ==
  [message |-> message, n |-> n, text |-> text, font |-> NoFont]

PassFont(message, font, n) ==
  [message |-> message, n |-> n, text |-> <<>>, font |-> font]

Issue(id, severity, message, n, text) ==
  [id |-> id, severity |-> severity, message |-> message, n |-> n,
   text |-> text, font |-> NoFont]

IssueFont(id, severity, message, font, n) ==
  [id |-> id, severity |-> severity, message |-> message, n |-> n,
   text |-> <<>>, font |-> font]

\* The results object the rules push to.
EmptyResults == [issues |-> <<>>, passing |-> <<>>]

PushPass(r, f) == [r EXCEPT !.passing = Append(@, f)]
PushIssue(r, f) == [r EXCEPT !.issues = Append(@, f)]

\* results.issues.filter(i => i.severity === sev).length
RECURSIVE CountSeverity(_, _)
CountSeverity(issues, sev) ==
  IF issues = <<>> THEN 0
  ELSE (IF Head(issues).severity = sev THEN 1 ELSE 0)
       + CountSeverity(Tail(issues), sev)

\* The deductions of warnings and suggestions exchanged (not the source's).
ScoreWrong(issues) ==
  Max(0, 100 - CountSeverity(issues, "error") * 15
             - CountSeverity(issues, "warning") * 3
             - CountSeverity(issues, "suggestion") * 8)

\* Math.max(0, 100 - (errors * 15) - (warnings * 8) - (suggestions * 3))
CalcScore(issues) ==
  Max(0, 100 - CountSeverity(issues, "error") * 15
             - CountSeverity(issues, "warning") * 8
             - CountSeverity(issues, "suggestion") * 3)

(***************************************************************************)
(* Structure extraction of the server: APAValidator.parseDocxStructure.    *)
(***************************************************************************)

\* new DOMParser().parseFromString(xml, 'text/xml') of the xmldom package:
\* for the empty string it reports "invalid doc source" and returns no
\* document (undefined); every other part parses to its document.
ParsesToDocument(xml) == ~xml.empty

\* extractText: the w:t contents appended one after the other, no separator.
RECURSIVE ExtractText(_)
ExtractText(paras) ==
  IF paras = <<>> THEN <<>> ELSE Head(paras).toks \o ExtractText(Tail(paras))

\* extractFontInfo, in half-points: font of the first w:rFonts of styles.xml
\* (or the default when it has no w:ascii), size of its first w:sz.
DefaultFont == Font("Times New Roman", "exact")

ExtractFontInfo(styles) ==
  [font |-> IF styles.fonts # <<>> /\ styles.fonts[1] # NoFont
              THEN styles.fonts[1] ELSE DefaultFont,
   halfPts |-> IF styles.sizes # <<>> THEN styles.sizes[1] ELSE 2 * 12]

\* extractSpacingInfo
ExtractSpacingInfo(styles, document) ==
  \E e \in styles.spacing \cup document.spacing :
      e.line = "480" \/ e.lineRule = "auto"

\* styleName.toLowerCase().includes('heading')
ServerIsHeadingStyle(style) == style.word \in {"Heading", "heading", "HEADING"}

\* A level taken from the digits that end the style name, whatever stands
\* between them and the word (not the source's).
TrailingHeadingLevel(style) ==
  IF style.suffix = "" /\ style.digits >= 0 THEN style.digits ELSE 1

\* extractHeadingLevel: styleName.match(/heading\s*(\d+)/i)
ServerHeadingLevel(style) ==
  IF ServerIsHeadingStyle(style) /\ style.sep \in {"", " "} /\ style.digits >= 0
    THEN style.digits ELSE 1

\* extractHeadings (with extractParagraphText, extractParagraphFormatting)
RECURSIVE ExtractHeadings(_)
ExtractHeadings(paras) ==
  IF paras = <<>> THEN <<>>
  ELSE LET p == Head(paras)
       IN (IF ServerIsHeadingStyle(p.style)
             THEN <<[text |-> Trim(p.toks), level |-> ServerHeadingLevel(p.style),
                     isCentered |-> (p.jc = "center"), isBold |-> p.bold]>>
             ELSE <<>>)
          \o ExtractHeadings(Tail(paras))

\* detectPageNumbers over documentXml + headerXml + footerXml:
\*   /w:fldChar.*?w:fldCharType="begin".*?PAGE.*?w:fldCharType="end"/i
\*   /<w:pgNum/i
\*   /PAGE\s*\\*/i     (the letters "page" in any case, anywhere)
DetectPageNumbers(document, header, footer) ==
  LET all == document.signals \cup header.signals \cup footer.signals
  IN \/ "fieldPAGE" \in all
     \/ "pgNum" \in all
     \/ all \cap {"fieldPAGE", "simplePAGE", "wordPage"} # {}

\* parseDocxStructure: threw says a TypeError left the function (a part that did
\* not parse to a document is dereferenced by extractText / extractFontInfo).
ParseDocxStructure(pkg) ==
  IF ~ParsesToDocument(pkg.document) \/ ~ParsesToDocument(pkg.styles)
    THEN [threw |-> TRUE, text |-> <<>>, fontInfo |-> [font |-> NoFont, halfPts |-> 0],
          isDoubleSpaced |-> FALSE, headings |-> <<>>, pageNumbers |-> FALSE]
    ELSE [threw |-> FALSE,
          text |-> ExtractText(pkg.document.paras),
          fontInfo |-> ExtractFontInfo(pkg.styles),
          isDoubleSpaced |-> ExtractSpacingInfo(pkg.styles, pkg.document),
          headings |-> ExtractHeadings(pkg.document.paras),
          pageNumbers |-> DetectPageNumbers(pkg.document, pkg.header, pkg.footer)]

(***************************************************************************)
(* Regular expressions shared by the evaluators, on token sequences.       *)
(***************************************************************************)

\* fontInfo.font.toLowerCase().includes(name.toLowerCase())
LowerIncludes(font, name) == font.base = name

\* The literal begins with [A-Z][a-z]+ .
StartsCapitalised(t) ==
  t.k \in SectionWords \cup {"Author", "Name", "ByName", "RefA", "RefB", "RefC"}

\* /^[A-Z]/.test(literal): the tokens that begin with a capital are those above.
StartsUpper(t) == StartsCapitalised(t)

\* The literal is one capitalised word and nothing else.
CapitalisedWord(t) == t.k \in SectionWords \cup {"Author"}

\* Index of the first non-space token at or after i (Len(s) + 1 when none).
RECURSIVE SkipSpaces(_, _)
SkipSpaces(s, i) ==
  IF i <= Len(s) /\ IsSpace(s[i]) THEN SkipSpaces(s, i + 1) ELSE i

\* /^[A-Z][a-z]+\s+[A-Z][a-z]+/m matches at token i.
NameAt(s, i) ==
  /\ i = 1 \/ s[i - 1].k = "NL"
  /\ \/ s[i].k \in {"Name", "ByName"}
     \/ /\ CapitalisedWord(s[i])
        /\ i < Len(s) /\ IsSpace(s[i + 1])
        /\ LET j == SkipSpaces(s, i + 1)
           IN j <= Len(s) /\ StartsCapitalised(s[j])

\* authorPatterns.some(pattern => pattern.test(firstPage)):
\*   /^[A-Z][a-z]+\s+[A-Z][a-z]+/m, /Author/i, /By\s+[A-Z]/i
HasAuthor(firstPage) ==
  \/ \E i \in 1..Len(firstPage) : NameAt(firstPage, i)
  \/ \E i \in 1..Len(firstPage) : firstPage[i].k = "Author"
  \/ \E i \in 1..Len(firstPage) : firstPage[i].k = "ByName"

\* institutionPatterns.some(..): /university/i, /college/i, /school/i
HasInstitution(firstPage) ==
  \E i \in 1..Len(firstPage) : firstPage[i].k = "University"

\* text.match(/Abstract\s*([\s\S]*?)(?:<terminators>|$)/i): found says the
\* text holds the word; body is capture group 1, the text after the first
\* "Abstract" up to the first terminator word (or the end of the text).
AbstractMatch(text, terminators) ==
  LET a == FirstIn(text, 1, {"Abstract"})
      e == FirstIn(text, a + 1, terminators)
  IN IF a = 0 THEN [found |-> FALSE, body |-> <<>>]
     ELSE [found |-> TRUE,
           body |-> SubSeq(text, a + 1, IF e = 0 THEN Len(text) ELSE e - 1)]

\* Matches of /"[^"]{20,}"/g from position i on, as <<first, last>> index pairs:
\* a quote character, at least 20 other characters, the next quote character.
\* When the span up to the next quote character is too short the search goes
\* on from that next quote character.
RECURSIVE QuoteMatches(_, _)
QuoteMatches(s, i) ==
  LET d == FirstIn(s, i, {"DQ"})
      e == IF d = 0 THEN 0 ELSE FirstIn(s, d + 1, {"DQ"})
  IN IF d = 0 \/ e = 0 THEN <<>>
     ELSE IF Chars(SubSeq(s, d + 1, e - 1)) >= 20
            THEN <<(<<d, e>>)>> \o QuoteMatches(s, e + 1)
            ELSE QuoteMatches(s, e)

\* text.indexOf(quote): where the string first occurs.
IndexOf(s, sub) ==
  Least({p \in 1..(Len(s) - Len(sub) + 1) : SubSeq(s, p, p + Len(sub) - 1) = sub})

\* afterQuote.match(/^\s*\([^)]+,\s*\d{4}[^)]*,\s*pp?\.\s*\d+/) where afterQuote
\* is the 50 characters that follow position `last`: after white space, a
\* citation with a page marker whose first page digit is inside the window
\* (18 characters of "(Smith, 2020, p. 4)").
PageCitationFollows(s, last) ==
  LET j == SkipSpaces(s, last + 1)
  IN /\ j <= Len(s)
     /\ s[j].k = "CitP"
     /\ Chars(SubSeq(s, last + 1, j - 1)) + 18 <= 50

\* The quotes.forEach loop: each matched string is looked up again with
\* indexOf, and the text after that first occurrence is examined.
RECURSIVE QuotesWithoutPages(_, _)
QuotesWithoutPages(text, matches) ==
  IF matches = <<>> THEN 0
  ELSE LET m == Head(matches)
           quote == SubSeq(text, m[1], m[2])
           quoteIndex == IndexOf(text, quote)
       IN (IF PageCitationFollows(text, quoteIndex + Len(quote) - 1) THEN 0 ELSE 1)
          + QuotesWithoutPages(text, Tail(matches))

\* The same loop with each quote examined at its own position.
RECURSIVE QuotesWithoutPagesInPlace(_, _)
QuotesWithoutPagesInPlace(text, matches) ==
  IF matches = <<>> THEN 0
  ELSE (IF PageCitationFollows(text, Head(matches)[2]) THEN 0 ELSE 1)
       + QuotesWithoutPagesInPlace(text, Tail(matches))

\* Number of tokens of the given kinds.
RECURSIVE CountKinds(_, _)
CountKinds(s, K) ==
  IF s = <<>> THEN 0
  ELSE (IF Head(s).k \in K THEN 1 ELSE 0) + CountKinds(Tail(s), K)

\* text.match(/References\s*([\s\S]*?)(?:\n\s*Appendix|$)/i): body is the text
\* after the first "References" up to the first line break that is followed,
\* after optional white space, by "Appendix" (or up to the end of the text);
\* the white space right after "References" belongs to \s* and is no such break.
ReferencesMatch(text) ==
  LET r == FirstIn(text, 1, {"References"})
      stops == {i \in SkipSpaces(text, r + 1)..Len(text) :
                  /\ text[i].k = "NL"
                  /\ LET j == SkipSpaces(text, i + 1)
                     IN j <= Len(text) /\ text[j].k = "Appendix"}
  IN IF r = 0 THEN [found |-> FALSE, body |-> <<>>]
     ELSE [found |-> TRUE,
           body |-> SubSeq(text, r + 1,
                           IF stops = {} THEN Len(text) ELSE Least(stops) - 1)]

(***************************************************************************)
(* The reference list of the server: parseReferences, checkAlphabeticalOrder*)
(***************************************************************************)

\* referencesText.split('\n')
RECURSIVE SplitLines(_)
SplitLines(s) ==
  LET n == FirstIn(s, 1, {"NL"})
  IN IF n = 0 THEN <<s>>
     ELSE <<SubSeq(s, 1, n - 1)>> \o SplitLines(SubSeq(s, n + 1, Len(s)))

\* The for loop of parseReferences over the remaining lines.
RECURSIVE ParseReferenceLines(_, _, _)
ParseReferenceLines(lines, references, currentRef) ==
  IF lines = <<>>
    THEN IF Chars(Trim(currentRef)) > 30
           THEN Append(references, Trim(currentRef)) ELSE references
    ELSE LET trimmed == Trim(Head(lines))
         IN IF trimmed # <<>> /\ StartsUpper(Head(trimmed))
                /\ Chars(currentRef) > 30
              THEN ParseReferenceLines(Tail(lines),
                                       Append(references, Trim(currentRef)), trimmed)
              ELSE IF trimmed # <<>>
                THEN ParseReferenceLines(Tail(lines), references,
                                         currentRef \o <<SP>> \o trimmed)
                ELSE ParseReferenceLines(Tail(lines), references, currentRef)

ParseReferences(referencesText) ==
  ParseReferenceLines(SplitLines(referencesText), <<>>, <<>>)

\* The lower-cased literal of a token as a sequence of atoms, each atom the
\* rank of one word (or of the space, or of the quote character) in string
\* order.  No atom is the beginning of another, so two literals compare as their
\* atom sequences do.
Rank(word) ==
  CASE word = "space" -> 0        [] word = "quote" -> 1
    [] word = "abstract" -> 2     [] word = "adams" -> 3
    [] word = "appendix" -> 4     [] word = "author" -> 5
    [] word = "brown" -> 6        [] word = "by" -> 7
    [] word = "clark" -> 8        [] word = "doe" -> 9
    [] word = "introduction" -> 10 [] word = "jane" -> 11
    [] word = "keywords" -> 12    [] word = "lorem" -> 13
    [] word = "method" -> 14      [] word = "quoted text a" -> 15
    [] word = "quoted text b" -> 16 [] word = "references" -> 17
    [] word = "short text" -> 18  [] word = "university" -> 19

RECURSIVE Repeat(_, _)
Repeat(atoms, n) == IF n <= 0 THEN <<>> ELSE atoms \o Repeat(atoms, n - 1)

Atoms(t) ==
  CASE t.k = "w" -> <<Rank("lorem")>> \o Repeat(<<Rank("space"), Rank("lorem")>>, t.n - 1)
    [] t.k \in {"SP", "NL"} -> <<Rank("space")>>
    [] t.k = "GAP" -> Repeat(<<Rank("space")>>, 48)
    [] t.k = "DQ" -> <<Rank("quote")>>
    [] t.k = "BodyA" -> <<Rank("quoted text a")>>
    [] t.k = "BodyB" -> <<Rank("quoted text b")>>
    [] t.k = "BodyS" -> <<Rank("short text")>>
    [] t.k = "Name" -> <<Rank("jane"), Rank("space"), Rank("doe")>>
    [] t.k = "ByName" ->
         <<Rank("by"), Rank("space"), Rank("jane"), Rank("space"), Rank("doe")>>
    [] t.k = "Author" -> <<Rank("author")>>
    [] t.k = "RefA" -> <<Rank("adams")>>
    [] t.k = "RefB" -> <<Rank("brown")>>
    [] t.k = "RefC" -> <<Rank("clark")>>
    [] t.k = "Abstract" -> <<Rank("abstract")>>
    [] t.k = "Keywords" -> <<Rank("keywords")>>
    [] t.k = "Introduction" -> <<Rank("introduction")>>
    [] t.k = "Method" -> <<Rank("method")>>
    [] t.k = "References" -> <<Rank("references")>>
    [] t.k = "Appendix" -> <<Rank("appendix")>>
    [] t.k = "University" -> <<Rank("university")>>
    [] OTHER -> <<>>

\* ref.match(/^([^(,]+)/): the literal up to its first "(" or ",".  The
\* reference tokens have the comma after the surname, the citation tokens
\* begin with "(".
RECURSIVE UpToDelimiter(_)
UpToDelimiter(ref) ==
  IF ref = <<>> \/ Head(ref).k \in {"Cit", "CitP"} THEN <<>>
  ELSE IF Head(ref).k \in {"RefA", "RefB", "RefC"} THEN Atoms(Head(ref))
  ELSE Atoms(Head(ref)) \o UpToDelimiter(Tail(ref))

RECURSIVE DropTrailingSpaces(_)
DropTrailingSpaces(atoms) ==
  IF atoms # <<>> /\ atoms[Len(atoms)] = Rank("space")
    THEN DropTrailingSpaces(SubSeq(atoms, 1, Len(atoms) - 1)) ELSE atoms

\* match ? match[1].trim().toLowerCase() : ''
AuthorOf(ref) == DropTrailingSpaces(UpToDelimiter(ref))

\* a < b for strings.
RECURSIVE StringLess(_, _)
StringLess(a, b) ==
  IF b = <<>> THEN FALSE
  ELSE IF a = <<>> THEN TRUE
  ELSE IF Head(a) # Head(b) THEN Head(a) < Head(b)
  ELSE StringLess(Tail(a), Tail(b))

CheckAlphabeticalOrder(references) ==
  \A i \in 2..Len(references) :
      ~StringLess(AuthorOf(references[i]), AuthorOf(references[i - 1]))

(***************************************************************************)
(* The rules of the server: APAValidator.validate*                         *)
(***************************************************************************)
AcceptableFonts ==
  {[name |-> "Times New Roman", size |-> 12], [name |-> "Calibri", size |-> 11],
   [name |-> "Arial", size |-> 11], [name |-> "Georgia", size |-> 11],
   [name |-> "Lucida Sans Unicode", size |-> 10]}

\* A comparison that allows one point either way (not the source's).
ServerFontTolerant(fontInfo) ==
  \E a \in AcceptableFonts :
      /\ LowerIncludes(fontInfo.font, a.name)
      /\ fontInfo.halfPts >= 2 * a.size - 2
      /\ fontInfo.halfPts <= 2 * a.size + 2

\* acceptableFonts.some(a => font includes a.name && fontInfo.size === a.size),
\* fontInfo.size being half the w:val.
ServerFontAcceptable(fontInfo) ==
  \E a \in AcceptableFonts :
      LowerIncludes(fontInfo.font, a.name) /\ fontInfo.halfPts = 2 * a.size

\* The severity of the `font-incorrect` issue ('warning' is the client's).
LenientFontSeverity == "warning"

ServerFontSeverity == "error"

\* The severity of the `spacing-incorrect` issue ('suggestion' is the client's).
LenientSpacingSeverity == "suggestion"

ServerSpacingSeverity == "error"

\* The severity of the server's `page-numbers-missing` issue ('suggestion' is
\* the client's).
LenientPageSeverity == "suggestion"

ServerPageSeverity == "error"

ServerValidateGeneralFormatting(doc, results) ==
  LET r1 == IF ServerFontAcceptable(doc.fontInfo)
              THEN PushPass(results, PassFont("Font is correct",
                                              doc.fontInfo.font, doc.fontInfo.halfPts))
              ELSE PushIssue(results, IssueFont(<<"font-incorrect">>, ServerFontSeverity,
                                                "Font is not APA compliant",
                                                doc.fontInfo.font, doc.fontInfo.halfPts))
      r2 == IF doc.isDoubleSpaced
              THEN PushPass(r1, Pass("Document is properly double-spaced", -1, <<>>))
              ELSE PushIssue(r1, Issue(<<"spacing-incorrect">>, ServerSpacingSeverity,
                                       "Document is not double-spaced", -1, <<>>))
  IN IF doc.pageNumbers
       THEN PushPass(r2, Pass("Page numbers are present", -1, <<>>))
       ELSE PushIssue(r2, Issue(<<"page-numbers-missing">>, ServerPageSeverity,
                                "Page numbers are missing", -1, <<>>))

\* The severity of the server's `author-missing` issue ('warning' is the
\* client's).
LenientAuthorSeverity == "warning"

ServerAuthorSeverity == "error"

ServerValidateTitlePage(doc, results) ==
  LET firstPage == WholePrefix(doc.text, 1500)
      r1 == IF PrefixTrimLength(doc.text, 1500) > 10
              THEN PushPass(results, Pass("Title page content detected", -1, <<>>))
              ELSE results
      r2 == IF HasAuthor(firstPage)
              THEN PushPass(r1, Pass("Author information found", -1, <<>>))
              ELSE PushIssue(r1, Issue(<<"author-missing">>, ServerAuthorSeverity,
                                       "Author information missing from title page",
                                       -1, <<>>))
  IN IF HasInstitution(firstPage)
       THEN PushPass(r2, Pass("Institutional affiliation found", -1, <<>>))
       ELSE PushIssue(r2, Issue(<<"institution-missing">>, "warning",
                                "Institutional affiliation may be missing", -1, <<>>))

\* abstractText.split(/\s+/).length   (the empty string splits into [''])
ServerWordCount(abstractText) ==
  IF abstractText = <<>> THEN 1 ELSE SplitWords(abstractText)

\* The severity of the `abstract-too-long` issue ('suggestion' is the client's).
LenientTooLongSeverity == "suggestion"

ServerTooLongSeverity == "warning"

ServerValidateAbstract(doc, results) ==
  LET m == AbstractMatch(doc.text, {"Keywords", "Introduction"})
      wordCount == ServerWordCount(Trim(m.body))
      r1 == PushPass(results, Pass("Abstract section found", -1, <<>>))
  IN IF ~m.found THEN results
     ELSE IF wordCount >= 150 /\ wordCount <= 250
       THEN PushPass(r1, Pass("Abstract word count is appropriate", wordCount, <<>>))
     ELSE IF wordCount > 250
       THEN PushIssue(r1, Issue(<<"abstract-too-long">>, ServerTooLongSeverity,
                                "Abstract is too long", wordCount, <<>>))
     ELSE IF wordCount < 150 /\ wordCount > 50
       THEN PushIssue(r1, Issue(<<"abstract-too-short">>, "suggestion",
                                "Abstract may be too short", wordCount, <<>>))
     ELSE r1

\* headings.filter(h => !['abstract','references','keywords'].includes(
\*   h.text.toLowerCase()))
IsReservedTitle(text) ==
  Len(text) = 1 /\ text[1].k \in {"Abstract", "References", "Keywords"}

RECURSIVE ContentHeadings(_)
ContentHeadings(headings) ==
  IF headings = <<>> THEN <<>>
  ELSE (IF IsReservedTitle(Head(headings).text) THEN <<>> ELSE <<Head(headings)>>)
       \o ContentHeadings(Tail(headings))

\* A hierarchy loop that flags every move to a deeper level (not the
\* source's).
RECURSIVE ServerHierarchyStrict(_, _, _)
ServerHierarchyStrict(content, i, results) ==
  IF i >= Len(content) THEN results
  ELSE LET current == content[i + 1]
           previous == content[i]
       IN ServerHierarchyStrict(content, i + 1,
            IF current.level > previous.level
              THEN PushIssue(results, Issue(<<"heading-hierarchy", i>>, "error",
                                            "Heading level skipped", current.level,
                                            current.text))
              ELSE results)

\* The hierarchy loop, i being the 0-based index of `current`.
RECURSIVE ServerHierarchy(_, _, _)
ServerHierarchy(content, i, results) ==
  IF i >= Len(content) THEN results
  ELSE LET current == content[i + 1]
           previous == content[i]
       IN ServerHierarchy(content, i + 1,
            IF current.level > previous.level + 1
              THEN PushIssue(results, Issue(<<"heading-hierarchy", i>>, "error",
                                            "Heading level skipped", current.level,
                                            current.text))
              ELSE results)

\* A requirements table with an entry for every level (not the source's).
AnyLevel(level) == TRUE

\* requirements[level]: levels 1..5 are listed, level 1 alone is centered.
ServerHasRequirement(level) == level \in 1..5

\* validateIndividualHeading(heading, index, results)
ServerValidateIndividualHeading(heading, index, results) ==
  IF ~ServerHasRequirement(heading.level) THEN results
  ELSE LET r1 == IF heading.level = 1 /\ heading.isCentered
                   THEN PushPass(results, Pass("heading is properly centered",
                                               heading.level, heading.text))
                 ELSE IF heading.level = 1 /\ ~heading.isCentered
                   THEN PushIssue(results, Issue(<<"heading-not-centered", index>>,
                                                 "error", "heading should be centered",
                                                 heading.level, heading.text))
                 ELSE results
       IN IF heading.isBold
            THEN PushPass(r1, Pass("heading is properly bolded",
                                   heading.level, heading.text))
            ELSE PushIssue(r1, Issue(<<"heading-not-bold", index>>, "error",
                                     "heading should be bold",
                                     heading.level, heading.text))

\* A forEach that hands every heading the index 0 (not the source's).
RECURSIVE ServerEachHeadingUnnumbered(_, _, _)
ServerEachHeadingUnnumbered(content, index, results) ==
  IF index >= Len(content) THEN results
  ELSE ServerEachHeadingUnnumbered(content, index + 1,
         ServerValidateIndividualHeading(content[index + 1], 0, results))

\* contentHeadings.forEach((heading, index) => ..), from 0-based index on.
RECURSIVE ServerEachHeading(_, _, _)
ServerEachHeading(content, index, results) ==
  IF index >= Len(content) THEN results
  ELSE ServerEachHeading(content, index + 1,
         ServerValidateIndividualHeading(content[index + 1], index, results))

ServerValidateHeadings(doc, results) ==
  LET content == ContentHeadings(doc.headings)
  IN IF doc.headings = <<>>
       THEN PushIssue(results, Issue(<<"no-headings">>, "suggestion",
                                     "No headings detected", -1, <<>>))
     ELSE IF content = <<>> THEN results
     ELSE ServerEachHeading(content, 0,
            ServerHierarchy(content, 1,
              PushPass(results, Pass("Document uses heading(s)", Len(content), <<>>))))

\* citationRegex /\(([A-Za-z\s&,.-]+),\s*(\d{4}[a-z]?)(?:,\s*pp?\.\s*\d+(?:-\d+)?)?\)/g
\* matches a citation with or without a page marker.
ServerCitationCount(text) == CountKinds(text, {"Cit", "CitP"})

ServerQuoteCount(text) == QuotesWithoutPages(text, QuoteMatches(text, 1))

ServerValidateCitations(doc, results) ==
  LET citations == ServerCitationCount(doc.text)
      quotesWithoutPages == ServerQuoteCount(doc.text)
      r1 == IF citations > 0
              THEN PushPass(results, Pass("Found properly formatted citation(s)",
                                          citations, <<>>))
              ELSE results
  IN IF quotesWithoutPages > 0
       THEN PushIssue(r1, Issue(<<"quotes-missing-pages">>, "error",
                                "direct quote(s) missing page numbers",
                                quotesWithoutPages, <<>>))
       ELSE r1

\* The severity of the server's `references-missing` issue (neither the
\* server's nor the client's is 'suggestion').
LenientReferencesSeverity == "suggestion"

ServerReferencesSeverity == "error"

ServerValidateReferences(doc, results) ==
  LET m == ReferencesMatch(doc.text)
      references == ParseReferences(Trim(m.body))
      r1 == PushPass(results, Pass("References section found", -1, <<>>))
      r2 == PushPass(r1, Pass("Found reference(s)", Len(references), <<>>))
  IN IF ~m.found
       THEN PushIssue(results, Issue(<<"references-missing">>, ServerReferencesSeverity,
                                     "References section not found", -1, <<>>))
     ELSE IF references = <<>> THEN r1
     ELSE IF CheckAlphabeticalOrder(references)
       THEN PushPass(r2, Pass("References are in alphabetical order", -1, <<>>))
       ELSE PushIssue(r2, Issue(<<"references-not-alphabetical">>, "error",
                                "References are not in alphabetical order", -1, <<>>))

(***************************************************************************)
(* APAValidator.validateDocument and the route handler.                    *)
(***************************************************************************)
Filename(base, ext) == [base |-> base, ext |-> ext]

\* file.originalFilename.endsWith('.docx')
EndsWithDocx(name) == name.ext = ".docx"

NoReport == [filename |-> Filename("", ""), issues |-> <<>>, passing |-> <<>>,
             score |-> 0]

ServerRunRules(doc) ==
  ServerValidateReferences(doc,
    ServerValidateCitations(doc,
      ServerValidateHeadings(doc,
        ServerValidateAbstract(doc,
          ServerValidateTitlePage(doc,
            ServerValidateGeneralFormatting(doc, EmptyResults))))))

\* A validateDocument whose catch block returns a report of one error finding
\* instead of throwing (not the source's).
ValidateDocumentDegraded(pkg, filename) ==
  LET doc == ParseDocxStructure(pkg)
      results == ServerRunRules(doc)
  IN IF ~pkg.zip \/ doc.threw
       THEN [threw |-> FALSE,
             report |-> [filename |-> filename,
                         issues |-> <<Issue(<<"parse-failed">>, "error",
                                            "Document parsing failed", -1, <<>>)>>,
                         passing |-> <<>>, score |-> 0]]
       ELSE [threw |-> FALSE,
             report |-> [filename |-> filename, issues |-> results.issues,
                         passing |-> results.passing,
                         score |-> CalcScore(results.issues)]]

\* validateDocument(buffer, filename): [threw, report].  new AdmZip(buffer)
\* throws for bytes that are no archive, parseDocxStructure throws as above;
\* the catch block throws `Document parsing failed: ...` to the caller.
ValidateDocument(pkg, filename) ==
  LET doc == ParseDocxStructure(pkg)
      results == ServerRunRules(doc)
  IN IF ~pkg.zip \/ doc.threw
       THEN [threw |-> TRUE, report |-> NoReport]
       ELSE [threw |-> FALSE,
             report |-> [filename |-> filename, issues |-> results.issues,
                         passing |-> results.passing,
                         score |-> CalcScore(results.issues)]]

\* A request: [method, field, filename, pkg].  field is the name of the form
\* field that carries the uploaded file ("" when the form carries no file).
Request(method, field, filename, pkg) ==
  [method |-> method, field |-> field, filename |-> filename, pkg |-> pkg]

\* A response: the status and the JSON body, an { error } object or the report.
NoResponse == [status |-> 0, kind |-> "none", report |-> NoReport]
ErrorResponse(status) == [status |-> status, kind |-> "error", report |-> NoReport]
ReportResponse(report) == [status |-> 200, kind |-> "report", report |-> report]

\* handler(req, res): [response, tmpFile, extracted].  tmpFile says the upload
\* that form.parse wrote to /tmp is still there when the response is sent;
\* extracted says validateDocument was called.
HandlerOutcome(req) ==
  LET v == ValidateDocument(req.pkg, req.filename)
  IN IF req.method # "POST"
       THEN [response |-> ErrorResponse(405), tmpFile |-> FALSE, extracted |-> FALSE]
     ELSE IF req.field # "document"
       \* files.document is undefined: files.document[0] throws a TypeError
       THEN [response |-> ErrorResponse(500), tmpFile |-> (req.field # ""),
             extracted |-> FALSE]
     ELSE IF ~EndsWithDocx(req.filename)
       THEN [response |-> ErrorResponse(400), tmpFile |-> TRUE, extracted |-> FALSE]
     ELSE IF v.threw
       THEN [response |-> ErrorResponse(500), tmpFile |-> TRUE, extracted |-> TRUE]
     ELSE [response |-> ReportResponse(v.report), tmpFile |-> FALSE,
           extracted |-> TRUE]

(***************************************************************************)
(* The client: what processDocument hands to analyze, and the rules of     *)
(* ClientAPAValidator.  The two variants of the class differ in analyze    *)
(* (the first stores the XML on the instance) and in validateHeadings.     *)
(***************************************************************************)

\* mammoth.extractRawText: every paragraph followed by two line breaks.
RECURSIVE RawText(_)
RawText(paras) ==
  IF paras = <<>> THEN <<>>
  ELSE Head(paras).toks \o <<NL, NL>> \o RawText(Tail(paras))

\* mammoth and JSZip open the package: both reject bytes that are no archive,
\* mammoth rejects an archive without a main document part.
CanExtract(pkg) == pkg.zip /\ ~pkg.document.empty

\* The docData object built by processDocument.
DocDataOf(pkg, filename) ==
  [text |-> RawText(pkg.document.paras), htmlDouble |-> pkg.htmlDouble,
   documentXml |-> pkg.document, stylesXml |-> pkg.styles, filename |-> filename]

UnknownFont == Font("Unknown", "exact")

RECURSIVE FirstAscii(_)
FirstAscii(fonts) ==
  IF fonts = <<>> THEN NoFont
  ELSE IF Head(fonts) # NoFont THEN Head(fonts) ELSE FirstAscii(Tail(fonts))

\* detectFont: (stylesXml + documentXml).match(/w:ascii="([^"]+)"/i)
DetectFont(stylesXml, documentXml) ==
  IF FirstAscii(stylesXml.fonts) # NoFont THEN FirstAscii(stylesXml.fonts)
  ELSE IF documentXml.font # NoFont THEN documentXml.font
  ELSE UnknownFont

\* A line of the text, for /^[A-Z][^.!?]*$/gm.
HasSentenceMark(line) ==
  \E i \in 1..Len(line) : line[i].k \in {"RefA", "RefB", "RefC", "CitP"}

\* Matches of /^[A-Z][^.!?]*$/gm from line i on: a match begins at a line that
\* begins with a capital and, [^.!?] matching line breaks too, runs on over the
\* following lines up to the last line end before the next . ! or ? .
RECURSIVE RunEnd(_, _)
RunEnd(lines, i) ==
  IF i < Len(lines) /\ ~HasSentenceMark(lines[i + 1]) THEN RunEnd(lines, i + 1) ELSE i

RECURSIVE HeadingLikeLines(_, _)
HeadingLikeLines(lines, i) ==
  IF i > Len(lines) THEN 0
  ELSE IF lines[i] # <<>> /\ StartsUpper(lines[i][1]) /\ ~HasSentenceMark(lines[i])
    THEN 1 + HeadingLikeLines(lines, RunEnd(lines, i) + 1)
    ELSE HeadingLikeLines(lines, i + 1)

\* countHeadings
CountHeadings(text) ==
  Min(HeadingLikeLines(SplitLines(text), 1)
        + CountKinds(text, {"Introduction", "Method"}), 10)

\* countCitations: /\([A-Za-z\s&,.-]+,\s*\d{4}[a-z]?\)/g wants the closing
\* parenthesis right after the year, so a citation with a page marker is no match.
CountCitations(text) == CountKinds(text, {"Cit"})

ClientFontAcceptable(font) ==
  \E a \in AcceptableFonts : LowerIncludes(font, a.name)

\* A severity that is none of the three the score counts (not the source's).
UnlistedSeverity == "info"

ClientFontSeverity == "warning"

ClientValidateFont(stylesXml, documentXml, results) ==
  LET font == DetectFont(stylesXml, documentXml)
  IN IF ClientFontAcceptable(font)
       THEN PushPass(results, PassFont("Font detected", font, -1))
     ELSE IF font # UnknownFont
       THEN PushIssue(results, IssueFont(<<"font-issue">>, ClientFontSeverity,
                                         "Font may not be APA compliant", font, -1))
     ELSE results

\* A validateSpacing that looks at the report first and pushes its finding
\* only when no other rule has pushed one (not the source's).
ClientValidateSpacingIfFirst(htmlDouble, documentXml, results) ==
  IF results.issues # <<>> \/ results.passing # <<>> THEN results
  ELSE IF htmlDouble \/ \E e \in documentXml.spacing : e.line = "480"
    THEN PushPass(results, Pass("Double spacing detected", -1, <<>>))
    ELSE PushIssue(results, Issue(<<"spacing-issue">>, "suggestion",
                                  "Document spacing cannot be verified", -1, <<>>))

ClientValidateSpacing(htmlDouble, documentXml, results) ==
  IF htmlDouble \/ \E e \in documentXml.spacing : e.line = "480"
    THEN PushPass(results, Pass("Double spacing detected", -1, <<>>))
    ELSE PushIssue(results, Issue(<<"spacing-issue">>, "suggestion",
                                  "Document spacing cannot be verified", -1, <<>>))

ClientValidateTitlePage(text, results) ==
  LET firstPage == WholePrefix(text, 1000)
      r1 == IF PrefixTrimLength(text, 1000) > 50
              THEN PushPass(results, Pass("Title page content found", -1, <<>>))
              ELSE results
      r2 == IF HasAuthor(firstPage)
              THEN PushPass(r1, Pass("Author information detected", -1, <<>>))
              ELSE PushIssue(r1, Issue(<<"author-missing">>, "warning",
                                       "Author information may be missing", -1, <<>>))
  IN IF HasInstitution(firstPage)
       THEN PushPass(r2, Pass("Institution information found", -1, <<>>))
       ELSE PushIssue(r2, Issue(<<"institution-missing">>, "suggestion",
                                "Institutional affiliation may be missing", -1, <<>>))

\* abstractText.split(/\s+/).filter(w => w.length > 0).length
ClientWordCount(abstractText) == SplitWords(abstractText)

\* A validateAbstract that, like the server's, pushes nothing when no abstract
\* is found (not the client's).
ClientValidateAbstractSilent(text, results) ==
  LET m == AbstractMatch(text, {"Keywords", "Introduction", "Method"})
      wordCount == ClientWordCount(Trim(m.body))
      r1 == PushPass(results, Pass("Abstract section found", -1, <<>>))
  IN IF ~m.found THEN results
     ELSE IF wordCount >= 150 /\ wordCount <= 250
       THEN PushPass(r1, Pass("Abstract length appropriate", wordCount, <<>>))
     ELSE IF wordCount > 250
       THEN PushIssue(r1, Issue(<<"abstract-long">>, "suggestion",
                                "Abstract is lengthy", wordCount, <<>>))
     ELSE IF wordCount > 50
       THEN PushIssue(r1, Issue(<<"abstract-short">>, "suggestion",
                                "Abstract is brief", wordCount, <<>>))
     ELSE r1

ClientValidateAbstract(text, results) ==
  LET m == AbstractMatch(text, {"Keywords", "Introduction", "Method"})
      wordCount == ClientWordCount(Trim(m.body))
      r1 == PushPass(results, Pass("Abstract section found", -1, <<>>))
  IN IF ~m.found
       THEN PushIssue(results, Issue(<<"abstract-missing">>, "suggestion",
                                     "Abstract section not clearly detected", -1, <<>>))
     ELSE IF wordCount >= 150 /\ wordCount <= 250
       THEN PushPass(r1, Pass("Abstract length appropriate", wordCount, <<>>))
     ELSE IF wordCount > 250
       THEN PushIssue(r1, Issue(<<"abstract-long">>, "suggestion",
                                "Abstract is lengthy", wordCount, <<>>))
     ELSE IF wordCount > 50
       THEN PushIssue(r1, Issue(<<"abstract-short">>, "suggestion",
                                "Abstract is brief", wordCount, <<>>))
     ELSE r1

\* paragraphXml.match(/<w:pStyle w:val="([^"]*[Hh]eading\d*[^"]*)"/)
ClientIsHeadingStyle(style) == style.word \in {"Heading", "heading"}

\* extractHeadingLevel: styleName.match(/[Hh]eading\s*(\d+)/)
ClientHeadingLevel(style) ==
  IF ClientIsHeadingStyle(style) /\ style.sep \in {"", " "} /\ style.digits >= 0
    THEN style.digits ELSE 1

\* extractHeadingsFromXML
RECURSIVE ExtractHeadingsFromXML(_)
ExtractHeadingsFromXML(paras) ==
  IF paras = <<>> THEN <<>>
  ELSE LET p == Head(paras)
       IN (IF ClientIsHeadingStyle(p.style) /\ Trim(p.toks) # <<>>
             THEN <<[text |-> Trim(p.toks), level |-> ClientHeadingLevel(p.style),
                     isBold |-> p.bold, isCentered |-> (p.jc = "center")]>>
             ELSE <<>>)
          \o ExtractHeadingsFromXML(Tail(paras))

\* The body of headings.forEach((heading, index) => ..).
ClientCheckHeading(heading, index, results) ==
  LET r1 == IF heading.isBold
              THEN PushPass(results, Pass("is properly bolded",
                                          heading.level, heading.text))
              ELSE PushIssue(results, Issue(<<"heading-not-bold", index>>, "error",
                                            "should be bold",
                                            heading.level, heading.text))
  IN IF heading.level = 1
       THEN IF heading.isCentered
              THEN PushPass(r1, Pass("Level 1 heading is centered",
                                     heading.level, heading.text))
              ELSE PushIssue(r1, Issue(<<"heading-not-centered", index>>, "error",
                                       "Level 1 heading should be centered",
                                       heading.level, heading.text))
       ELSE IF heading.isCentered
              THEN PushIssue(r1, Issue(<<"heading-incorrectly-centered", index>>,
                                       "error", "heading should not be centered",
                                       heading.level, heading.text))
              ELSE PushPass(r1, Pass("heading is flush left",
                                     heading.level, heading.text))

RECURSIVE ClientEachHeading(_, _, _)
ClientEachHeading(headings, index, results) ==
  IF index >= Len(headings) THEN results
  ELSE ClientEachHeading(headings, index + 1,
         ClientCheckHeading(headings[index + 1], index, results))

\* validateHeadings of the first variant; thisDocumentXml is this.documentXml.
ClientValidateHeadings(thisDocumentXml, results) ==
  LET headings == ExtractHeadingsFromXML(thisDocumentXml.paras)
  IN IF headings # <<>>
       THEN ClientEachHeading(headings, 0,
              PushPass(results, Pass("Found heading(s)", Len(headings), <<>>)))
       ELSE PushIssue(results, Issue(<<"no-headings">>, "suggestion",
                                     "No APA-style headings detected", -1, <<>>))

\* validateHeadings of the second variant.
ClientValidateHeadingsByCount(text, results) ==
  IF CountHeadings(text) > 0
    THEN PushPass(results, Pass("Organizational headings detected",
                                CountHeadings(text), <<>>))
    ELSE PushIssue(results, Issue(<<"no-headings">>, "suggestion",
                                  "No clear headings detected", -1, <<>>))

ClientQuoteCount(text) == QuotesWithoutPages(text, QuoteMatches(text, 1))

ClientValidateCitations(text, results) ==
  LET citationCount == CountCitations(text)
      quotesWithoutPages == ClientQuoteCount(text)
      r1 == PushPass(results, Pass("In-text citations found", citationCount, <<>>))
  IN IF citationCount > 0
       THEN IF quotesWithoutPages > 0
              THEN PushIssue(r1, Issue(<<"quotes-no-pages">>, "error",
                                       "quote(s) may be missing page numbers",
                                       quotesWithoutPages, <<>>))
              ELSE r1
       ELSE PushIssue(results, Issue(<<"no-citations">>, "suggestion",
                                     "No in-text citations detected", -1, <<>>))

\* (referencesText.match(/\n[A-Z]/g) || []).length
RECURSIVE CapitalAfterBreak(_)
CapitalAfterBreak(s) ==
  IF Len(s) < 2 THEN 0
  ELSE (IF s[1].k = "NL" /\ StartsUpper(s[2]) THEN 1 ELSE 0)
       + CapitalAfterBreak(Tail(s))

ClientReferencesSeverity == "warning"

ClientValidateReferences(text, results) ==
  LET m == ReferencesMatch(text)
      referencesText == Trim(m.body)
      r1 == PushPass(results, Pass("References section found", -1, <<>>))
  IN IF ~m.found
       THEN PushIssue(results, Issue(<<"references-missing">>, ClientReferencesSeverity,
                                     "References section not detected", -1, <<>>))
     ELSE IF Chars(referencesText) > 100
       THEN PushPass(r1, Pass("References contain entries",
                              CapitalAfterBreak(referencesText), <<>>))
     ELSE r1

\* documentXml.includes('w:pgNum') || .includes('PAGE') || .includes('w:fldChar')
ClientValidatePageNumbers(documentXml, results) ==
  IF \/ "pgNum" \in documentXml.signals
     \/ documentXml.signals \cap {"fieldPAGE", "simplePAGE"} # {}
     \/ documentXml.signals \cap {"fieldPAGE", "fieldTOC"} # {}
    THEN PushPass(results, Pass("Page numbering detected", -1, <<>>))
    ELSE PushIssue(results, Issue(<<"page-numbers-missing">>, "suggestion",
                                  "Page numbers may be missing", -1, <<>>))

(***************************************************************************)
(* ClientAPAValidator.analyze.  An instance is [documentXml, stylesXml],   *)
(* the two fields analyze stores; a new instance has neither (undefined,   *)
(* read as '' by `this.documentXml || ''`).                                *)
(***************************************************************************)
NewInstance == [documentXml |-> NoDocumentXml, stylesXml |-> NoStylesXml]

NoClientReport ==
  [filename |-> Filename("", ""), issues |-> <<>>, passing |-> <<>>, score |-> 0,
   debug |-> [textLength |-> 0, font |-> NoFont, headings |-> 0, citations |-> 0]]

ClientReport(docData, results) ==
  [filename |-> docData.filename, issues |-> results.issues,
   passing |-> results.passing, score |-> CalcScore(results.issues),
   debug |-> [textLength |-> Chars(docData.text),
              font |-> DetectFont(docData.stylesXml, docData.documentXml),
              headings |-> CountHeadings(docData.text),
              citations |-> CountCitations(docData.text)]]

\* An analyze that stores docData.documentXml after the rules have run, so
\* that validateHeadings reads the field as it was (not the source's).
StaleDocumentXml(before, docData) == before.documentXml

\* What this.documentXml holds when validateHeadings reads it: analyze has
\* stored docData.documentXml before it runs the rules.
StoredDocumentXml(before, docData) == docData.documentXml

\* analyze of the first variant, called on an instance in state `before`:
\* [inst, report].
Analyze(before, docData) ==
  LET text == docData.text
      results ==
        ClientValidatePageNumbers(docData.documentXml,
          ClientValidateReferences(text,
            ClientValidateCitations(text,
              ClientValidateHeadings(StoredDocumentXml(before, docData),
                ClientValidateAbstract(text,
                  ClientValidateTitlePage(text,
                    ClientValidateSpacing(docData.htmlDouble, docData.documentXml,
                      ClientValidateFont(docData.stylesXml, docData.documentXml,
                                         EmptyResults))))))))
  IN [inst |-> [documentXml |-> docData.documentXml, stylesXml |-> docData.stylesXml],
      report |-> ClientReport(docData, results)]

\* analyze of the second variant: it stores nothing on the instance.
AnalyzeByCount(before, docData) ==
  LET text == docData.text
      results ==
        ClientValidatePageNumbers(docData.documentXml,
          ClientValidateReferences(text,
            ClientValidateCitations(text,
              ClientValidateHeadingsByCount(text,
                ClientValidateAbstract(text,
                  ClientValidateTitlePage(text,
                    ClientValidateSpacing(docData.htmlDouble, docData.documentXml,
                      ClientValidateFont(docData.stylesXml, docData.documentXml,
                                         EmptyResults))))))))
  IN [inst |-> before, report |-> ClientReport(docData, results)]

\* analysis: the variant of the validator that ran (0: none), the report it
\* returned, and the fields the instance held when analyze was called.
NoAnalysis == [variant |-> 0, report |-> NoClientReport, on |-> NewInstance]

NoMemo == [set |-> FALSE, request |-> Request("", "", Filename("", ""), NotAZip),
           response |-> NoResponse, analysis |-> NoAnalysis]

(***************************************************************************)
(* Bounded inputs.                                                         *)
(***************************************************************************)
\* Sizes of w:sz, in half-points: 8pt .. 13.5pt.
MinHalfPts == 16
MaxHalfPts == 27
\* Longest sequence of heading paragraphs, longest sequence of text items.
MaxHeadings == 2
MaxItems == 3
\* Longest sequence of title-page and section items.
MaxSections == 3
\* Longest sequence of headings of a document outline.
MaxOutline == 4

\* All sequences over S of length 0..n.
RECURSIVE SeqsUpTo(_, _)
SeqsUpTo(S, n) ==
  IF n = 0 THEN {<<>>}
  ELSE LET shorter == SeqsUpTo(S, n - 1)
       IN shorter \cup {Append(q, x) : q \in {r \in shorter : Len(r) = n - 1}, x \in S}

DoubleSpacing == [line |-> "480", lineRule |-> "auto"]
SingleSpacing == [line |-> "240", lineRule |-> "exact"]

TimesNewRoman == Font("Times New Roman", "exact")
ComicSans == Font("Comic Sans", "exact")

GoodStyles == StylesXml(<<TimesNewRoman>>, <<24>>, {DoubleSpacing})
PoorStyles == StylesXml(<<ComicSans>>, <<24>>, {SingleSpacing})

\* "Jane Doe University lorem lorem lorem (Smith, 2020) References <RefA>"
GoodText ==
  <<T("Name"), SP, T("University"), SP, W(3), SP, T("Cit"), SP,
    T("References"), SP, T("RefA")>>

GoodPackage ==
  Package(DocumentXml(<<Body(GoodText)>>, NoFont, {}, {"fieldPAGE"}),
          GoodStyles, PartXml({}), PartXml({"fieldPAGE"}), FALSE)

WithParas(pkg, paras) == [pkg EXCEPT !.document.paras = paras]

\* A package with nothing right: every rule that can complain does.
PoorPackage ==
  Package(DocumentXml(<<Body(<<W(3)>>)>>, NoFont, {}, {}),
          PoorStyles, NoPartXml, NoPartXml, FALSE)

\* Packages that differ in the fonts and sizes they declare.
FontChoices ==
  {Font(a.name, "exact") : a \in AcceptableFonts}
    \cup {ComicSans, Font("Arial", "extended"), Font("Times New Roman", "lower"),
          NoFont}

FontPackages ==
  {[GoodPackage EXCEPT !.styles.fonts = fonts, !.styles.sizes = sizes,
                       !.document.font = docFont] :
     fonts \in {<<>>} \cup {<<f>> : f \in FontChoices}
                 \cup {<<NoFont, ComicSans>>, <<NoFont, TimesNewRoman>>},
     sizes \in {<<>>} \cup {<<h>> : h \in MinHalfPts..MaxHalfPts},
     docFont \in {NoFont, ComicSans}}

\* Packages whose paragraphs are headings (and a body paragraph).
HeadingParas ==
  {Para(HeadingStyle(level), <<W(1)>>, bold, "none") :
     level \in {1, 2, 6}, bold \in BOOLEAN}
    \cup {Para(HeadingStyle(1), <<W(2)>>, bold, "center") : bold \in BOOLEAN}
    \cup {Para(HeadingStyle(1), <<T("Abstract")>>, TRUE, "center"),
          Para(Style("HEADING", "", 2, ""), <<W(1)>>, FALSE, "none"),
          Para(Style("heading", " ", 3, ""), <<W(1)>>, TRUE, "none"),
          Para(HeadingStyle(2), <<SP>>, FALSE, "none"),
          Body(<<W(3)>>)}

HeadingPackages ==
  {WithParas(base, paras) :
     base \in {GoodPackage, PoorPackage},
     paras \in SeqsUpTo(HeadingParas, MaxHeadings)}

\* Packages with an abstract of a given number of words, in one paragraph or
\* in two, closed by a section word or by the end of the text.
AbstractSizes == {1, 40, 50, 51, 149, 150, 200, 250, 251, 300}

AbstractBodies ==
  {<<>>} \cup {<<Body(<<W(n)>>)>> : n \in AbstractSizes}
         \cup {<<Body(<<W(n)>>), Body(<<W(1)>>)>> : n \in AbstractSizes}

AbstractClosers ==
  {<<>>} \cup {<<Body(<<T(k)>>)>> : k \in {"Keywords", "Introduction", "Method"}}

AbstractPackages ==
  {WithParas(GoodPackage, <<Body(<<T("Abstract")>>)>> \o body \o closer) :
     body \in AbstractBodies, closer \in AbstractClosers}

\* Packages whose text is a sequence of quoted spans, citations and other text.
Quoted(body) == <<DQ, T(body), DQ>>

TextItems ==
  {Quoted("BodyA"), Quoted("BodyS"), <<T("CitP")>>, <<T("Cit")>>, <<W(3)>>,
   <<SP>>, <<T("GAP")>>}

TextPackages ==
  {WithParas(GoodPackage, <<Body(Concat(items))>>) :
     items \in SeqsUpTo(TextItems, MaxItems)}

\* Packages with parts missing.
PartPackages ==
  {NotAZip, GoodPackage, PoorPackage,
   [GoodPackage EXCEPT !.styles = NoStylesXml],
   [GoodPackage EXCEPT !.styles = NoStylesXml, !.document.font = ComicSans],
   [GoodPackage EXCEPT !.header = NoPartXml, !.footer = NoPartXml],
   [GoodPackage EXCEPT !.document = NoDocumentXml],
   [GoodPackage EXCEPT !.styles = StylesXml(<<>>, <<>>, {})]}

\* Packages that differ in the spacing they declare, in the page-number
\* constructs of their parts and in the line height of the converted html.
SpacingChoices ==
  {{}, {DoubleSpacing}, {SingleSpacing}, {[line |-> "240", lineRule |-> "auto"]},
   {[line |-> "480", lineRule |-> "exact"]}}

SignalChoices == {{}} \cup {{g} : g \in PageSignals}

FormatPackages ==
  {[GoodPackage EXCEPT !.htmlDouble = html, !.styles.spacing = inStyles,
                       !.document.spacing = inDocument,
                       !.document.signals = signals, !.header = header,
                       !.footer = footer] :
     html \in BOOLEAN, inStyles \in SpacingChoices, inDocument \in SpacingChoices,
     signals \in SignalChoices, header \in {NoPartXml, PartXml({"wordPage"})},
     footer \in {NoPartXml, PartXml({}), PartXml({"pgNum"})}}

\* Packages whose text is a sequence of names, section titles, line breaks and
\* running text (300 words fill more than a first page).
SectionItems ==
  {<<T("Name")>>, <<T("ByName")>>, <<T("Author")>>, <<T("Abstract")>>,
   <<T("References")>>, <<W(3)>>, <<W(300)>>, <<NL>>}

SectionPackages ==
  {WithParas(GoodPackage, <<Body(Concat(items))>>) :
     items \in SeqsUpTo(SectionItems, MaxSections)}

\* Packages that are outlines: bold headings of levels 1 to 4 and the reserved
\* title Abstract, in any order.
OutlineParas ==
  {Para(HeadingStyle(level), <<W(1)>>, TRUE, "none") : level \in 1..4}
    \cup {Para(HeadingStyle(1), <<T("Abstract")>>, TRUE, "center")}

OutlinePackages ==
  {WithParas(GoodPackage, paras) : paras \in SeqsUpTo(OutlineParas, MaxOutline)}

PaperDocx == Filename("paper", ".docx")

Upload(pkg) == Request("POST", "document", PaperDocx, pkg)

ProtocolRequests ==
  {Request(method, field, Filename("paper", ext), pkg) :
     method \in {"POST", "GET"}, field \in {"document", "file", ""},
     ext \in {".docx", ".doc", ".DOCX"}, pkg \in PartPackages}

FontRequests == {Upload(pkg) : pkg \in FontPackages}
HeadingRequests == {Upload(pkg) : pkg \in HeadingPackages}
AbstractRequests == {Upload(pkg) : pkg \in AbstractPackages}
TextRequests == {Upload(pkg) : pkg \in TextPackages}
FormatRequests == {Upload(pkg) : pkg \in FormatPackages}
SectionRequests == {Upload(pkg) : pkg \in SectionPackages}
OutlineRequests == {Upload(pkg) : pkg \in OutlinePackages}

Requests ==
  ProtocolRequests \cup FontRequests \cup HeadingRequests \cup AbstractRequests
                   \cup TextRequests

(***************************************************************************)
(* The state machine.                                                      *)
(*   request   the upload under validation (the request sent to the route, *)
(*             the file handed to the client validator)                    *)
(*   response  what the route handler answered                             *)
(*   extracted the handler called validateDocument for the request         *)
(*   tmpFile   the upload is still in /tmp after the handler's answer      *)
(*   analysis  [variant, report, on]: the report analyze returned          *)
(*   inst      the fields of the client validator instance last used       *)
(*   memo      a remembered earlier validation (request and its outcomes)  *)
(*   run       a validator at work step by step: [engine, ran, results,    *)
(*             headings]                                                   *)
(*   ui        the page's state: file, results, loading, error,            *)
(*             dismissedIssues; page says which page component is mounted, *)
(*             inflight is the file a running processDocument or           *)
(*             handleUpload closed over, dismissedFor (history) names the  *)
(*             files whose reports were on display when ids were toggled   *)
(*             since the dismissed set was last empty                      *)
(***************************************************************************)
\* No validator is at work rule by rule.
NoRun == [engine |-> "none", ran |-> <<>>, results |-> EmptyResults,
          headings |-> <<>>]

\* useState(null), useState(null), useState(false), useState(null),
\* useState(new Set()).
NoFile == [set |-> FALSE, filename |-> Filename("", ""), pkg |-> NotAZip]
NoResults == [kind |-> "none", report |-> NoReport]
NoUi == [page |-> "none", file |-> NoFile, results |-> NoResults,
         loading |-> FALSE, error |-> "", dismissedIssues |-> {},
         inflight |-> NoFile, dismissedFor |-> {}]

InitWith(requests) ==
  /\ request \in requests
  /\ response = NoResponse
  /\ extracted = FALSE
  /\ tmpFile = FALSE
  /\ analysis = NoAnalysis
  /\ inst = NewInstance
  /\ memo = NoMemo
  /\ run = NoRun
  /\ ui = NoUi

Init == InitWith(Requests)

\* The route handler answers the request.
Post ==
  /\ response' = HandlerOutcome(request).response
  /\ extracted' = HandlerOutcome(request).extracted
  /\ tmpFile' = HandlerOutcome(request).tmpFile
  /\ UNCHANGED <<request, analysis, inst, memo, run, ui>>

\* processDocument of the first variant: validator = new ClientAPAValidator(),
\* validator.analyze(docData).
ClientAnalyze ==
  /\ CanExtract(request.pkg)
  /\ LET out == Analyze(NewInstance, DocDataOf(request.pkg, request.filename))
     IN /\ analysis' = [variant |-> 1, report |-> out.report, on |-> NewInstance]
        /\ inst' = out.inst
  /\ UNCHANGED <<request, response, extracted, tmpFile, memo, run, ui>>

\* The same of the second variant.
ClientAnalyzeByCount ==
  /\ CanExtract(request.pkg)
  /\ LET out == AnalyzeByCount(NewInstance, DocDataOf(request.pkg, request.filename))
     IN /\ analysis' = [variant |-> 2, report |-> out.report, on |-> NewInstance]
        /\ inst' = out.inst
  /\ UNCHANGED <<request, response, extracted, tmpFile, memo, run, ui>>

Next == Post \/ ClientAnalyze \/ ClientAnalyzeByCount

Spec == Init /\ [][Next]_vars

\* The same program on one family of inputs each.
SpecFonts == InitWith(FontRequests) /\ [][Next]_vars
SpecHeadings == InitWith(HeadingRequests) /\ [][Next]_vars
SpecAbstract == InitWith(AbstractRequests) /\ [][Next]_vars
SpecText == InitWith(TextRequests) /\ [][Next]_vars
SpecParts == InitWith(ProtocolRequests) /\ [][Next]_vars
SpecFormat == InitWith(FormatRequests) /\ [][Next]_vars
SpecSections == InitWith(SectionRequests) /\ [][Next]_vars
SpecOutline == InitWith(OutlineRequests) /\ [][Next]_vars

(***************************************************************************)
(* Repeated validation: another upload is taken up, the validator instance *)
(* is kept and used again, outcomes are remembered and compared with later *)
(* ones.                                                                   *)
(***************************************************************************)
PlainHeading == Para(HeadingStyle(1), <<W(1)>>, FALSE, "none")
BoldHeading == Para(HeadingStyle(2), <<W(1)>>, TRUE, "none")

ReuseRequests ==
  {Upload(pkg) : pkg \in {GoodPackage, NotAZip,
                          WithParas(GoodPackage, <<PlainHeading>>),
                          WithParas(PoorPackage, <<BoldHeading>>),
                          WithParas(GoodPackage, <<PlainHeading, BoldHeading>>)}}

InitReuse == InitWith(ReuseRequests)

\* Another upload is taken up; the outcomes of the previous one are dropped.
Select ==
  /\ request' \in ReuseRequests
  /\ response' = NoResponse
  /\ extracted' = FALSE
  /\ tmpFile' = FALSE
  /\ analysis' = NoAnalysis
  /\ UNCHANGED <<inst, memo, run, ui>>

Remember ==
  /\ response # NoResponse \/ analysis # NoAnalysis
  /\ memo' = [set |-> TRUE, request |-> request, response |-> response,
              analysis |-> analysis]
  /\ UNCHANGED <<request, response, extracted, tmpFile, analysis, inst, run, ui>>

\* analyze(docData) called again on the instance used before.
AnalyzeAgain ==
  /\ CanExtract(request.pkg)
  /\ inst # NewInstance
  /\ LET out == Analyze(inst, DocDataOf(request.pkg, request.filename))
     IN /\ analysis' = [variant |-> 1, report |-> out.report, on |-> inst]
        /\ inst' = out.inst
  /\ UNCHANGED <<request, response, extracted, tmpFile, memo, run, ui>>

NextReuse ==
  Select \/ Remember \/ Post \/ ClientAnalyze \/ ClientAnalyzeByCount \/ AnalyzeAgain

SpecReuse == InitReuse /\ [][NextReuse]_vars

(***************************************************************************)
(* The rules one at a time.  validateDocument and analyze call their        *)
(* validate* methods in a declared sequence; here a validator that has       *)
(* created its results object calls the methods it has not called yet, in    *)
(* any order.                                                                *)
(***************************************************************************)
ServerRuleNames ==
  {"GeneralFormatting", "TitlePage", "Abstract", "Headings", "Citations",
   "References"}

ClientRuleNames ==
  {"Font", "Spacing", "TitlePage", "Abstract", "Headings", "Citations",
   "References", "PageNumbers"}

\* this.validate<name>(docStructure, results)
ServerRule(name, doc, results) ==
  CASE name = "GeneralFormatting" -> ServerValidateGeneralFormatting(doc, results)
    [] name = "TitlePage" -> ServerValidateTitlePage(doc, results)
    [] name = "Abstract" -> ServerValidateAbstract(doc, results)
    [] name = "Headings" -> ServerValidateHeadings(doc, results)
    [] name = "Citations" -> ServerValidateCitations(doc, results)
    [] name = "References" -> ServerValidateReferences(doc, results)

\* this.validate<name>(.., results) of the client; variant 2 counts headings
\* in the text, variant 1 reads them from the document.xml analyze stored.
ClientRule(variant, name, docData, results) ==
  CASE name = "Font" ->
         ClientValidateFont(docData.stylesXml, docData.documentXml, results)
    [] name = "Spacing" ->
         ClientValidateSpacing(docData.htmlDouble, docData.documentXml, results)
    [] name = "TitlePage" -> ClientValidateTitlePage(docData.text, results)
    [] name = "Abstract" -> ClientValidateAbstract(docData.text, results)
    [] name = "Headings" ->
         IF variant = 1
           THEN ClientValidateHeadings(StoredDocumentXml(NewInstance, docData),
                                       results)
           ELSE ClientValidateHeadingsByCount(docData.text, results)
    [] name = "Citations" -> ClientValidateCitations(docData.text, results)
    [] name = "References" -> ClientValidateReferences(docData.text, results)
    [] name = "PageNumbers" ->
         ClientValidatePageNumbers(docData.documentXml, results)

Ran == {run.ran[i] : i \in DOMAIN run.ran}

\* A document with something right and something wrong for every validator.
MixedPackage ==
  [WithParas(GoodPackage, <<PlainHeading, BoldHeading,
                            Body(<<T("Name"), SP, W(3), SP, T("Cit"), NL,
                                   T("Abstract"), SP, W(60)>>)>>)
     EXCEPT !.htmlDouble = TRUE, !.styles.fonts = <<ComicSans>>]

OrderRequests == {Upload(MixedPackage)}

\* validateDocument has parsed the package and created its results object.
BeginServer ==
  /\ run = NoRun
  /\ request.pkg.zip /\ ~ParseDocxStructure(request.pkg).threw
  /\ run' = [NoRun EXCEPT !.engine = "server"]
  /\ UNCHANGED <<request, response, extracted, tmpFile, analysis, inst, memo, ui>>

\* analyze (variant 1 or 2) has stored the XML and created its results object.
BeginClient ==
  /\ run = NoRun
  /\ CanExtract(request.pkg)
  /\ \E engine \in {"client", "clientByCount"} :
         run' = [NoRun EXCEPT !.engine = engine]
  /\ UNCHANGED <<request, response, extracted, tmpFile, analysis, inst, memo, ui>>

RunServerRule ==
  /\ run.engine = "server"
  /\ \E name \in ServerRuleNames \ Ran :
         run' = [run EXCEPT !.ran = Append(@, name),
                            !.results = ServerRule(name,
                                                   ParseDocxStructure(request.pkg), @)]
  /\ UNCHANGED <<request, response, extracted, tmpFile, analysis, inst, memo, ui>>

RunClientRule ==
  /\ run.engine \in {"client", "clientByCount"}
  /\ \E name \in ClientRuleNames \ Ran :
         run' = [run EXCEPT !.ran = Append(@, name),
                            !.results =
                              ClientRule(IF run.engine = "client" THEN 1 ELSE 2, name,
                                         DocDataOf(request.pkg, request.filename), @)]
  /\ UNCHANGED <<request, response, extracted, tmpFile, analysis, inst, memo, ui>>

NextOrder == BeginServer \/ BeginClient \/ RunServerRule \/ RunClientRule

SpecOrder == InitWith(OrderRequests) /\ [][NextOrder]_vars

(***************************************************************************)
(* Heading extraction alone: extractHeadings of the server (DOM-based) and   *)
(* extractHeadingsFromXML of the client (regex-based) read the paragraphs    *)
(* of document.xml.  A style name is word ++ sep ++ digits ++ suffix.        *)
(***************************************************************************)
StyleChoices ==
  {Style(word, sep, digits, suffix) :
     word \in {"Heading", "heading", "HEADING"}, sep \in {"", " ", "-"},
     digits \in {-1, 1, 2, 10}, suffix \in {"", "Char"}}

StylePackages ==
  {WithParas(GoodPackage, <<Para(style, <<W(1)>>, FALSE, "none")>> \o rest) :
     style \in StyleChoices, rest \in {<<>>, <<Body(<<W(3)>>)>>}}

StyleRequests == {Upload(pkg) : pkg \in StylePackages}

ServerExtractHeadings ==
  /\ run = NoRun
  /\ run' = [NoRun EXCEPT !.engine = "serverHeadings",
                          !.headings = ExtractHeadings(request.pkg.document.paras)]
  /\ UNCHANGED <<request, response, extracted, tmpFile, analysis, inst, memo, ui>>

ClientExtractHeadings ==
  /\ run = NoRun
  /\ run' = [NoRun EXCEPT !.engine = "clientHeadings",
                          !.headings =
                            ExtractHeadingsFromXML(request.pkg.document.paras)]
  /\ UNCHANGED <<request, response, extracted, tmpFile, analysis, inst, memo, ui>>

NextStyles == ServerExtractHeadings \/ ClientExtractHeadings

SpecStyles == InitWith(StyleRequests) /\ [][NextStyles]_vars

(***************************************************************************)
(* The page component Home.  Three pages exist: the two variants of         *)
(* src/pages/index.js, which validate in the browser, and                   *)
(* src/app/pages/index.js, which posts the file to the route.               *)
(***************************************************************************)
Pages == {"client", "clientByCount", "app"}

File(filename, pkg) == [set |-> TRUE, filename |-> filename, pkg |-> pkg]

UiFiles ==
  {File(Filename("good", ".docx"), GoodPackage),
   File(Filename("poor", ".docx"), PoorPackage),
   File(Filename("mixed", ".docx"), MixedPackage),
   File(Filename("scan", ".docx"), NotAZip)}

\* results.issues.filter(i => i.severity === severity && !dismissedIssues.has(i.id))
RECURSIVE ActiveIssues(_, _, _)
ActiveIssues(issues, dismissed, severity) ==
  IF issues = <<>> THEN <<>>
  ELSE (IF Head(issues).severity = severity /\ Head(issues).id \notin dismissed
          THEN <<Head(issues)>> ELSE <<>>)
       \o ActiveIssues(Tail(issues), dismissed, severity)

GetActiveIssues(u) ==
  IF u.results.kind = "none"
    THEN [errors |-> <<>>, warnings |-> <<>>, suggestions |-> <<>>]
    ELSE [errors |-> ActiveIssues(u.results.report.issues, u.dismissedIssues, "error"),
          warnings |-> ActiveIssues(u.results.report.issues, u.dismissedIssues,
                                    "warning"),
          suggestions |-> ActiveIssues(u.results.report.issues, u.dismissedIssues,
                                       "suggestion")]

\* A calculateScore that shows the score field of the report (not the source's).
ReportedScore(u) == IF u.results.kind = "none" THEN 0 ELSE u.results.report.score

CalculateScore(u) ==
  IF u.results.kind = "none" THEN 0
  ELSE LET active == GetActiveIssues(u)
           totalDeductions == Len(active.errors) * 15 + Len(active.warnings) * 8
                                + Len(active.suggestions) * 3
       IN Max(0, 100 - totalDeductions)

\* One of the pages is mounted; no request has reached the route.
InitUi ==
  /\ request = Request("", "", Filename("", ""), NotAZip)
  /\ response = NoResponse
  /\ extracted = FALSE
  /\ tmpFile = FALSE
  /\ analysis = NoAnalysis
  /\ inst = NewInstance
  /\ memo = NoMemo
  /\ run = NoRun
  /\ ui \in {[NoUi EXCEPT !.page = p] : p \in Pages}

\* The page's state after handleFileSelect(selectedFile).
AfterFileSelect(u, selectedFile) ==
  [u EXCEPT !.file = selectedFile, !.results = NoResults, !.error = "",
            !.dismissedIssues = {}, !.dismissedFor = {}]

HandleFileSelect ==
  /\ ui.page \in Pages
  /\ \E selectedFile \in UiFiles : ui' = AfterFileSelect(ui, selectedFile)
  /\ UNCHANGED <<request, response, extracted, tmpFile, analysis, inst, memo, run>>

\* processDocument / handleUpload up to the first await; the button that calls
\* them is disabled while loading.
Submit ==
  /\ ui.page \in Pages
  /\ ui.file.set
  /\ ~ui.loading
  /\ ui' = [ui EXCEPT !.loading = TRUE, !.error = "", !.inflight = ui.file]
  /\ UNCHANGED <<request, response, extracted, tmpFile, analysis, inst, memo, run>>

\* An attempt that never takes loading back (not the source's).
LoadingLeftOn == TRUE

\* finally { setLoading(false) }
LoadingAfterAttempt == FALSE

\* The rest of processDocument: JSZip and mammoth are imported from the CDN
\* (which succeeds or rejects), they read the file, a new validator analyzes
\* it, and the report or the failure is stored.
ProcessDocument ==
  /\ ui.page \in {"client", "clientByCount"}
  /\ ui.inflight.set
  /\ \E imported \in BOOLEAN :
       LET docData == DocDataOf(ui.inflight.pkg, ui.inflight.filename)
           out == IF ui.page = "client" THEN Analyze(NewInstance, docData)
                  ELSE AnalyzeByCount(NewInstance, docData)
       IN IF imported /\ CanExtract(ui.inflight.pkg)
            THEN ui' = [ui EXCEPT !.results = [kind |-> "client",
                                              report |-> out.report],
                                 !.loading = LoadingAfterAttempt,
                                 !.inflight = NoFile]
            ELSE ui' = [ui EXCEPT !.error = "Failed to process document",
                                 !.loading = LoadingAfterAttempt,
                                 !.inflight = NoFile]
  /\ UNCHANGED <<request, response, extracted, tmpFile, analysis, inst, memo, run>>

\* The rest of handleUpload: the file is posted under the field `document`;
\* the request reaches the route, which answers, or fetch rejects; the report
\* or the failure is stored.
HandleUpload ==
  /\ ui.page = "app"
  /\ ui.inflight.set
  /\ \E reached \in BOOLEAN :
       LET req == Request("POST", "document", ui.inflight.filename, ui.inflight.pkg)
           out == HandlerOutcome(req)
       IN IF reached
            THEN /\ request' = req
                 /\ response' = out.response
                 /\ extracted' = out.extracted
                 /\ tmpFile' = out.tmpFile
                 /\ IF out.response.kind = "report"
                      THEN ui' = [ui EXCEPT !.results = [kind |-> "server",
                                                        report |-> out.response.report],
                                           !.loading = LoadingAfterAttempt,
                                           !.inflight = NoFile]
                      ELSE ui' = [ui EXCEPT !.error = "Validation failed",
                                           !.loading = LoadingAfterAttempt,
                                           !.inflight = NoFile]
            ELSE /\ ui' = [ui EXCEPT !.error = "Failed to fetch",
                                     !.loading = LoadingAfterAttempt,
                                     !.inflight = NoFile]
                 /\ UNCHANGED <<request, response, extracted, tmpFile>>
  /\ UNCHANGED <<analysis, inst, memo, run>>

\* A toggle that only ever adds the id (not the source's).
DismissOnly(dismissed, issueId) == dismissed \cup {issueId}

\* newDismissed of toggleDismiss: a copy of the set without the id when it had
\* it, with the id when it had not.
Toggled(dismissed, issueId) ==
  IF issueId \in dismissed THEN dismissed \ {issueId}
  ELSE dismissed \cup {issueId}

\* toggleDismiss(issue.id), issue being an issue of the report held.
ToggleDismiss ==
  /\ ui.results.kind # "none"
  /\ \E j \in DOMAIN ui.results.report.issues :
         LET newDismissed == Toggled(ui.dismissedIssues,
                                     ui.results.report.issues[j].id)
         IN ui' = [ui EXCEPT !.dismissedIssues = newDismissed,
                             !.dismissedFor =
                               IF newDismissed = {} THEN {}
                               ELSE @ \cup {ui.results.report.filename}]
  /\ UNCHANGED <<request, response, extracted, tmpFile, analysis, inst, memo, run>>

NextUi ==
  HandleFileSelect \/ Submit \/ ProcessDocument \/ HandleUpload \/ ToggleDismiss

SpecUi == InitUi /\ [][NextUi]_vars

\* Validation attempts alone, with the awaited promises of a started attempt
\* settling in the end (its continuation runs once they do).
NextAttempts == HandleFileSelect \/ Submit \/ ProcessDocument \/ HandleUpload

SpecAttempts ==
  /\ InitUi
  /\ [][NextAttempts]_vars
  /\ WF_vars(ProcessDocument)
  /\ WF_vars(HandleUpload)
\* The reports the state holds, as <<issues, score>>.
ReportsHeld ==
  (IF response.kind = "report"
     THEN {<<response.report.issues, response.report.score>>} ELSE {})
    \cup (IF analysis.variant # 0
            THEN {<<analysis.report.issues, analysis.report.score>>} ELSE {})

Tally(issues, sev) == Cardinality({i \in DOMAIN issues : issues[i].severity = sev})

Deductions(issues) ==
  15 * Tally(issues, "error") + 8 * Tally(issues, "warning")
    + 3 * Tally(issues, "suggestion")

\* C1. The score of every report returned by validateDocument or analyze is an
\* integer in 0..100 and equals max(0, 100 - 15*E - 8*W - 3*S), E, W and S being
\* the numbers of issues of severity error, warning and suggestion.
C1_ScoreFormula ==
  \A r \in ReportsHeld :
      /\ r[2] \in 0..100
      /\ r[2] = (IF Deductions(r[1]) >= 100 THEN 0 ELSE 100 - Deductions(r[1]))

\* A server report whose deductions exceed 100 (score clamped to 0) beside a
\* client report with issues of more than one severity and a score in between.
C1_Witness ==
  /\ response.kind = "report"
  /\ Deductions(response.report.issues) > 100
  /\ response.report.score = 0
  /\ analysis.variant # 0
  /\ analysis.report.score \in 1..99
  /\ Tally(analysis.report.issues, "warning") > 0
  /\ Tally(analysis.report.issues, "suggestion") > 0
  /\ Tally(analysis.report.issues, "error") > 0

\* The upload is a well-formed request whose bytes validateDocument cannot parse.
Unparsable ==
  /\ request.method = "POST"
  /\ request.field = "document"
  /\ EndsWithDocx(request.filename)
  /\ ~request.pkg.zip \/ request.pkg.document.empty

C3_SameInputSameReport ==
  (memo.set /\ memo.request = request) =>
      /\ (response # NoResponse /\ memo.response # NoResponse)
           => response = memo.response
      /\ (analysis.variant # 0 /\ analysis.variant = memo.analysis.variant)
           => analysis.report = memo.analysis.report

\* The remembered validation ran on a new instance; the same input has been
\* validated again, by the route and by an instance that held another document.
C3_Witness ==
  /\ memo.set
  /\ memo.request = request
  /\ memo.response.kind = "report"
  /\ response.kind = "report"
  /\ memo.analysis.variant = 1
  /\ memo.analysis.on = NewInstance
  /\ analysis.variant = 1
  /\ analysis.on.documentXml \notin {NoDocumentXml, request.pkg.document}
  /\ ExtractHeadingsFromXML(analysis.on.documentXml.paras)
       # ExtractHeadingsFromXML(request.pkg.document.paras)

\* Findings of a report, by the ids of issues and the messages of passing
\* findings, as sets of positions.
IssuesWithId(report, ids) ==
  {j \in DOMAIN report.issues : report.issues[j].id \in ids}

PassesWith(report, messages) ==
  {j \in DOMAIN report.passing : report.passing[j].message \in messages}

FontIssueIds == {<<"font-incorrect">>, <<"font-issue">>}
FontPassMessages == {"Font is correct", "Font detected"}

\* styles.xml declares one font and one size (in half-points).
Declares(font, halfPts) ==
  /\ request.pkg.styles.fonts = <<font>>
  /\ request.pkg.styles.sizes = <<halfPts>>

FontPassed(report) ==
  /\ Cardinality(PassesWith(report, FontPassMessages)) = 1
  /\ IssuesWithId(report, FontIssueIds) = {}

FontFlagged(report) ==
  /\ Cardinality(IssuesWithId(report, FontIssueIds)) = 1
  /\ PassesWith(report, FontPassMessages) = {}

FontFlaggedAs(report, severity) ==
  /\ FontFlagged(report)
  /\ \A j \in IssuesWithId(report, FontIssueIds) :
         report.issues[j].severity = severity

\* C4 as stated: Times New Roman at 12pt gives a font passing finding and no
\* font issue; Comic Sans at 12pt gives exactly one font issue, of severity
\* warning, from every validator.
C4_FontRuleWarning ==
  /\ response.kind = "report" =>
       /\ Declares(TimesNewRoman, 24) => FontPassed(response.report)
       /\ Declares(ComicSans, 24) => FontFlaggedAs(response.report, "warning")
  /\ analysis.variant # 0 =>
       /\ Declares(TimesNewRoman, 24) => FontPassed(analysis.report)
       /\ Declares(ComicSans, 24) => FontFlaggedAs(analysis.report, "warning")

\* C4, amended: Times New Roman at 12pt gives a font passing finding and no
\* font issue; Comic Sans at 12pt gives exactly one font issue, of severity
\* error from the server validator and of severity warning from the client
\* validator.
C4_FontRule ==
  /\ response.kind = "report" =>
       /\ Declares(TimesNewRoman, 24) => FontPassed(response.report)
       /\ Declares(ComicSans, 24) => FontFlaggedAs(response.report, "error")
  /\ analysis.variant # 0 =>
       /\ Declares(TimesNewRoman, 24) => FontPassed(analysis.report)
       /\ Declares(ComicSans, 24) => FontFlaggedAs(analysis.report, "warning")

\* Comic Sans at 12pt, answered by the route and analyzed by the client.
C4_Witness ==
  /\ Declares(ComicSans, 24)
  /\ response.kind = "report"
  /\ FontFlaggedAs(response.report, "error")
  /\ analysis.variant = 1
  /\ FontFlaggedAs(analysis.report, "warning")

\* The entries of the acceptable table whose family styles.xml declares, with
\* one size.
DeclaredEntries ==
  {a \in AcceptableFonts :
     /\ request.pkg.styles.fonts = <<Font(a.name, "exact")>>
     /\ Len(request.pkg.styles.sizes) = 1}

DeclaredHalfPts == request.pkg.styles.sizes[1]

\* |z - s| <= 1, in half-points.
WithinOnePoint(halfPts, size) ==
  halfPts >= 2 * size - 2 /\ halfPts <= 2 * size + 2

\* C5 as stated: for a family of the acceptable table with table size s and a
\* detected size z, the font rule emits the passing finding when |z - s| <= 1
\* and the font issue when |z - s| > 1.
C5_SizeTolerance ==
  \A a \in DeclaredEntries :
      /\ response.kind = "report" =>
           IF WithinOnePoint(DeclaredHalfPts, a.size)
             THEN FontPassed(response.report) ELSE FontFlagged(response.report)
      /\ analysis.variant # 0 =>
           IF WithinOnePoint(DeclaredHalfPts, a.size)
             THEN FontPassed(analysis.report) ELSE FontFlagged(analysis.report)

\* C5, amended: for a family of the acceptable table with table size s and a
\* detected size z, the server validator emits the passing finding when z = s
\* and the font issue when z differs from s; the client validator does not
\* look at the size and emits the passing finding for every z.
C5_SizeExact ==
  \A a \in DeclaredEntries :
      /\ response.kind = "report" =>
           IF DeclaredHalfPts = 2 * a.size
             THEN FontPassed(response.report) ELSE FontFlagged(response.report)
      /\ analysis.variant # 0 => FontPassed(analysis.report)

\* Times New Roman at 13pt: flagged by the server, passed by the client.
C5_Witness ==
  /\ Declares(TimesNewRoman, 26)
  /\ response.kind = "report"
  /\ FontFlagged(response.report)
  /\ analysis.variant # 0
  /\ FontPassed(analysis.report)

\* The headings the validators extract from the upload.
ServerContent == ContentHeadings(ExtractHeadings(request.pkg.document.paras))
ClientContent == ExtractHeadingsFromXML(request.pkg.document.paras)

\* The bold issues of the heading at a (0-based) index, the bold passing
\* findings that name a heading's level and text.
BoldIssuesAt(report, index) == IssuesWithId(report, {<<"heading-not-bold", index>>})

BoldPassesOf(report, h) ==
  {j \in PassesWith(report, {"heading is properly bolded", "is properly bolded"}) :
     report.passing[j].text = h.text /\ report.passing[j].n = h.level}

\* A non-bold heading has a bold issue that carries its text; a bold heading
\* has a bold passing finding and no bold issue.
BoldFindingFor(report, content, i) ==
  IF content[i].isBold
    THEN /\ BoldPassesOf(report, content[i]) # {}
         /\ BoldIssuesAt(report, i - 1) = {}
    ELSE \E j \in BoldIssuesAt(report, i - 1) :
             report.issues[j].text = content[i].text

\* C6 as stated: every extracted content heading gets a bold issue that refers
\* to its text when it is not bold, and a bold passing finding and no bold
\* issue when it is bold.
C6_EveryHeading ==
  /\ response.kind = "report" =>
       \A i \in DOMAIN ServerContent :
           BoldFindingFor(response.report, ServerContent, i)
  /\ analysis.variant = 1 =>
       \A i \in DOMAIN ClientContent :
           BoldFindingFor(analysis.report, ClientContent, i)

\* The content headings a validator checks, given the levels it has
\* requirements for; exactly one bold finding for each of them and none for
\* the others.
BoldFindingsExact(report, content, levels) ==
  /\ \A i \in DOMAIN content :
         IF content[i].level \in levels
           THEN /\ BoldFindingFor(report, content, i)
                /\ Cardinality(BoldIssuesAt(report, i - 1))
                     = (IF content[i].isBold THEN 0 ELSE 1)
           ELSE BoldIssuesAt(report, i - 1) = {}
  /\ \A i \in DOMAIN content :
         Cardinality(BoldPassesOf(report, content[i]))
           = Cardinality({k \in DOMAIN content :
                            /\ content[k].isBold
                            /\ content[k].level \in levels
                            /\ content[k].level = content[i].level
                            /\ content[k].text = content[i].text})
  /\ Cardinality(PassesWith(report, {"heading is properly bolded",
                                     "is properly bolded"}))
       = Cardinality({k \in DOMAIN content :
                        content[k].isBold /\ content[k].level \in levels})
  /\ Cardinality({j \in DOMAIN report.issues :
                    report.issues[j].id[1] = "heading-not-bold"})
       = Cardinality({k \in DOMAIN content :
                        ~content[k].isBold /\ content[k].level \in levels})

\* C6, amended: the server validator gives every content heading of level 1 to
\* 5 exactly one bold finding, an issue that refers to its text when it is not
\* bold and a passing finding when it is, and gives a heading of another level
\* no bold finding; the first client validator gives every heading it extracts,
\* whatever its level, exactly one bold finding in the same way.
C6_CheckedHeadings ==
  /\ response.kind = "report" =>
       BoldFindingsExact(response.report, ServerContent, 1..5)
  /\ analysis.variant = 1 =>
       BoldFindingsExact(analysis.report, ClientContent,
                         {ClientContent[i].level : i \in DOMAIN ClientContent})

\* Two content headings that are not bold, one of level 6 and one of level 2:
\* the server reports the second alone, the client both.
C6_Witness ==
  /\ response.kind = "report"
  /\ Len(ServerContent) = 2
  /\ \E i, k \in DOMAIN ServerContent :
         /\ ServerContent[i].level = 6 /\ ~ServerContent[i].isBold
         /\ ServerContent[k].level = 2 /\ ~ServerContent[k].isBold
         /\ BoldIssuesAt(response.report, i - 1) = {}
         /\ BoldIssuesAt(response.report, k - 1) # {}
  /\ analysis.variant = 1
  /\ Len(ClientContent) = 2
  /\ \A i \in DOMAIN ClientContent : BoldIssuesAt(analysis.report, i - 1) # {}

\* The abstract sections the validators find in the upload.
ServerAbstract ==
  AbstractMatch(ExtractText(request.pkg.document.paras), {"Keywords", "Introduction"})

ClientAbstract ==
  AbstractMatch(RawText(request.pkg.document.paras),
                {"Keywords", "Introduction", "Method"})

\* The words of an abstract body: a whitespace split of the trimmed body.
WordsOf(m) == SplitWords(Trim(m.body))

LengthPassMessages ==
  {"Abstract word count is appropriate", "Abstract length appropriate"}
TooLongIds == {<<"abstract-too-long">>, <<"abstract-long">>}
TooShortIds == {<<"abstract-too-short">>, <<"abstract-short">>}

\* The length findings of a report for an abstract of n words, the too-long
\* issue being of the given severity.
LengthFindings(report, n, tooLongSeverity) ==
  LET passes == PassesWith(report, LengthPassMessages)
      long == IssuesWithId(report, TooLongIds)
      short == IssuesWithId(report, TooShortIds)
  IN IF n >= 150 /\ n <= 250
       THEN Cardinality(passes) = 1 /\ long = {} /\ short = {}
     ELSE IF n > 250
       THEN /\ passes = {} /\ short = {}
            /\ Cardinality(long) = 1
            /\ \A j \in long : /\ report.issues[j].severity = tooLongSeverity
                               /\ report.issues[j].n = n
     ELSE IF n > 50
       THEN /\ passes = {} /\ long = {}
            /\ Cardinality(short) = 1
            /\ \A j \in short : /\ report.issues[j].severity = "suggestion"
                                /\ report.issues[j].n = n
     ELSE passes = {} /\ long = {} /\ short = {}

\* C7 as stated: an abstract of n words gives a passing length finding and no
\* length issue for n in 150..250, a too-long issue of severity suggestion for
\* n > 250, a too-short issue of severity suggestion for 50 < n < 150, and no
\* length finding for n <= 50.
C7_LengthSuggestion ==
  /\ (response.kind = "report" /\ ServerAbstract.found) =>
       LengthFindings(response.report, WordsOf(ServerAbstract), "suggestion")
  /\ (analysis.variant # 0 /\ ClientAbstract.found) =>
       LengthFindings(analysis.report, WordsOf(ClientAbstract), "suggestion")

\* C7, amended: the same, except that the too-long issue of the server
\* validator is of severity warning (that of the client validator is of
\* severity suggestion).
C7_LengthRule ==
  /\ (response.kind = "report" /\ ServerAbstract.found) =>
       LengthFindings(response.report, WordsOf(ServerAbstract), "warning")
  /\ (analysis.variant # 0 /\ ClientAbstract.found) =>
       LengthFindings(analysis.report, WordsOf(ClientAbstract), "suggestion")

\* An abstract of 300 words, reported too long by the server and by the client.
C7_Witness ==
  /\ response.kind = "report"
  /\ ServerAbstract.found
  /\ WordsOf(ServerAbstract) = 300
  /\ IssuesWithId(response.report, TooLongIds) # {}
  /\ analysis.variant # 0
  /\ ClientAbstract.found
  /\ WordsOf(ClientAbstract) > 250
  /\ IssuesWithId(analysis.report, TooLongIds) # {}

\* The number of quoted spans of at least 20 characters in a text that are not
\* followed, within 50 characters, by a citation with a page marker.
UncitedQuotes(text) == QuotesWithoutPagesInPlace(text, QuoteMatches(text, 1))

QuoteIssueIds == {<<"quotes-missing-pages">>, <<"quotes-no-pages">>}

\* No quote issue for k = 0; for k > 0 exactly one, of severity error, with
\* the count k.
QuoteFindings(report, k) ==
  LET q == IssuesWithId(report, QuoteIssueIds)
  IN IF k = 0 THEN q = {}
     ELSE /\ Cardinality(q) = 1
          /\ \A j \in q : /\ report.issues[j].severity = "error"
                          /\ report.issues[j].n = k

\* C8. With k the number of quoted spans of at least 20 characters that are
\* not followed by a citation with a page marker, a report holds no quote
\* issue when k = 0 and exactly one, of severity error and with the count k,
\* when k > 0, whatever else the text contains.
C8_QuoteCount ==
  /\ response.kind = "report" =>
       QuoteFindings(response.report,
                     UncitedQuotes(ExtractText(request.pkg.document.paras)))
  /\ analysis.variant # 0 =>
       QuoteFindings(analysis.report,
                     UncitedQuotes(RawText(request.pkg.document.paras)))

\* C9. A POST request with no file under the field `document`, or with a file
\* whose name does not end in .docx, is answered with a 4xx error before
\* validateDocument is called, and no report is produced.
C9_InvalidInput ==
  (/\ response # NoResponse
   /\ request.method = "POST"
   /\ request.field # "document" \/ ~EndsWithDocx(request.filename)) =>
      /\ response.status \in 400..499
      /\ response.kind = "error"
      /\ ~extracted

\* A well-formed upload of an archive that has its main document part and
\* lacks the styles part, the header or the footer.
PartsMissing ==
  /\ request.method = "POST"
  /\ request.field = "document"
  /\ EndsWithDocx(request.filename)
  /\ request.pkg.zip
  /\ ~request.pkg.document.empty
  /\ request.pkg.styles.empty \/ request.pkg.header.empty \/ request.pkg.footer.empty

\* C10. A package with a main document part and without styles part (or
\* header and footer parts) is validated as any other: a report is returned,
\* and without styles part the font is taken to be Times New Roman 12pt, so
\* that the font rule passes.
C10_MissingPartsTolerated ==
  (response # NoResponse /\ PartsMissing) =>
      /\ response.kind = "report"
      /\ request.pkg.styles.empty =>
           /\ FontPassed(response.report)
           /\ \A j \in PassesWith(response.report, FontPassMessages) :
                  /\ response.report.passing[j].font = DefaultFont
                  /\ response.report.passing[j].n = 2 * 12

\* A rule's outcome in a report: one passing finding and no issue, or one issue
\* (of a given severity) and no passing finding.
PassedOnce(report, ids, messages) ==
  /\ Cardinality(PassesWith(report, messages)) = 1
  /\ IssuesWithId(report, ids) = {}

FlaggedOnce(report, ids, messages, severity) ==
  /\ Cardinality(IssuesWithId(report, ids)) = 1
  /\ PassesWith(report, messages) = {}
  /\ \A j \in IssuesWithId(report, ids) : report.issues[j].severity = severity

SpacingIssueIds == {<<"spacing-incorrect">>, <<"spacing-issue">>}
SpacingPassMessages == {"Document is properly double-spaced", "Double spacing detected"}

\* isDoubleSpaced of the server: a w:spacing of styles.xml or document.xml
\* with w:line="480" or w:lineRule="auto".
ServerDoubleSpaced ==
  \E e \in request.pkg.styles.spacing \cup request.pkg.document.spacing :
      e.line = "480" \/ e.lineRule = "auto"

\* The client's indicator: a line height of 2 in the html, or w:line="480" in
\* document.xml.
ClientDoubleSpaced ==
  request.pkg.htmlDouble \/ \E e \in request.pkg.document.spacing : e.line = "480"

SpacingRule(report, double, severity) ==
  IF double THEN PassedOnce(report, SpacingIssueIds, SpacingPassMessages)
  ELSE FlaggedOnce(report, SpacingIssueIds, SpacingPassMessages, severity)

\* C11 as stated: every report contains exactly one spacing finding, a passing
\* finding when the document is double-spaced and an issue of severity
\* suggestion when it is not.
C11_SpacingSuggestion ==
  /\ response.kind = "report" =>
       SpacingRule(response.report, ServerDoubleSpaced, "suggestion")
  /\ analysis.variant # 0 =>
       SpacingRule(analysis.report, ClientDoubleSpaced, "suggestion")

\* C11, amended: every report contains exactly one spacing finding, a passing
\* finding when the document is double-spaced and otherwise an issue, of
\* severity error from the server validator and of severity suggestion from
\* the client validator.
C11_SpacingRule ==
  /\ response.kind = "report" =>
       SpacingRule(response.report, ServerDoubleSpaced, "error")
  /\ analysis.variant # 0 =>
       SpacingRule(analysis.report, ClientDoubleSpaced, "suggestion")

\* A document that is not double-spaced, flagged by the route and by the client.
C11_Witness ==
  /\ ~ServerDoubleSpaced
  /\ ~ClientDoubleSpaced
  /\ response.kind = "report"
  /\ FlaggedOnce(response.report, SpacingIssueIds, SpacingPassMessages, "error")
  /\ analysis.variant # 0
  /\ FlaggedOnce(analysis.report, SpacingIssueIds, SpacingPassMessages, "suggestion")

PageIssueIds == {<<"page-numbers-missing">>}
PagePassMessages == {"Page numbers are present", "Page numbering detected"}

\* The constructs the server's patterns find, in document.xml, the header and
\* the footer; those the client's substrings find, in document.xml.
ServerPagesDetected ==
  (request.pkg.document.signals \cup request.pkg.header.signals
     \cup request.pkg.footer.signals)
    \cap {"fieldPAGE", "pgNum", "simplePAGE", "wordPage"} # {}

ClientPagesDetected ==
  request.pkg.document.signals
    \cap {"fieldPAGE", "pgNum", "simplePAGE", "fieldTOC"} # {}

PageRule(report, detected, severity) ==
  IF detected THEN PassedOnce(report, PageIssueIds, PagePassMessages)
  ELSE FlaggedOnce(report, PageIssueIds, PagePassMessages, severity)

\* C12 as stated: every report contains exactly one page-number finding, a
\* passing finding when page numbers are detected and an issue of severity
\* suggestion when they are not.
C12_PagesSuggestion ==
  /\ response.kind = "report" =>
       PageRule(response.report, ServerPagesDetected, "suggestion")
  /\ analysis.variant # 0 =>
       PageRule(analysis.report, ClientPagesDetected, "suggestion")

\* C12, amended: every report contains exactly one page-number finding, a
\* passing finding when page numbers are detected and otherwise an issue, of
\* severity error from the server validator and of severity suggestion from
\* the client validator.
C12_PageRule ==
  /\ response.kind = "report" =>
       PageRule(response.report, ServerPagesDetected, "error")
  /\ analysis.variant # 0 =>
       PageRule(analysis.report, ClientPagesDetected, "suggestion")

\* A document without page numbers, flagged by the route and by the client.
C12_Witness ==
  /\ ~ServerPagesDetected
  /\ ~ClientPagesDetected
  /\ response.kind = "report"
  /\ FlaggedOnce(response.report, PageIssueIds, PagePassMessages, "error")
  /\ analysis.variant # 0
  /\ FlaggedOnce(analysis.report, PageIssueIds, PagePassMessages, "suggestion")

HeadingCountMessages ==
  {"Document uses heading(s)", "Found heading(s)", "Organizational headings detected"}
NoHeadingsIds == {<<"no-headings">>}

\* The presence finding for a list of extracted headings: with C the headings
\* whose text is not a reserved title, the count |C| confirmed when C is not
\* empty and the no-headings suggestion when it is.
HeadingsPresence(report, headings) ==
  LET C == {i \in DOMAIN headings : ~IsReservedTitle(headings[i].text)}
  IN IF C # {}
       THEN /\ PassedOnce(report, NoHeadingsIds, HeadingCountMessages)
            /\ \A j \in PassesWith(report, HeadingCountMessages) :
                   report.passing[j].n = Cardinality(C)
       ELSE FlaggedOnce(report, NoHeadingsIds, HeadingCountMessages, "suggestion")

\* C13. With C the extracted headings that are not reserved titles, a report
\* holds the passing finding stating |C| when C is not empty and the
\* no-headings suggestion when C is empty, exactly one of the two for every
\* document.
C13_HeadingsPresence ==
  /\ response.kind = "report" =>
       HeadingsPresence(response.report, ExtractHeadings(request.pkg.document.paras))
  /\ analysis.variant = 1 =>
       HeadingsPresence(analysis.report,
                        ExtractHeadingsFromXML(request.pkg.document.paras))

CitationPassMessages == {"Found properly formatted citation(s)", "In-text citations found"}
NoCitationsIds == {<<"no-citations">>}

\* The parenthesised Author, Year citations of a text, with or without a page
\* marker.
CitationMatches(text) ==
  Cardinality({i \in DOMAIN text : text[i].k \in {"Cit", "CitP"}})

CitationFinding(report, count) ==
  IF count >= 1
    THEN /\ PassedOnce(report, NoCitationsIds, CitationPassMessages)
         /\ \A j \in PassesWith(report, CitationPassMessages) :
                report.passing[j].n = count
    ELSE FlaggedOnce(report, NoCitationsIds, CitationPassMessages, "suggestion")

\* C14. Every report holds exactly one citation-count finding: the passing
\* finding stating the number of in-text citations when there is at least one,
\* and the none-found suggestion when there is none.
C14_CitationCount ==
  /\ response.kind = "report" =>
       CitationFinding(response.report,
                       CitationMatches(ExtractText(request.pkg.document.paras)))
  /\ analysis.variant # 0 =>
       CitationFinding(analysis.report,
                       CitationMatches(RawText(request.pkg.document.paras)))

\* The text the server and the client validate.
ServerText == ExtractText(request.pkg.document.paras)
ClientText == RawText(request.pkg.document.paras)

Mentions(text, word) == \E i \in DOMAIN text : text[i].k = word

ReferencesMissingIds == {<<"references-missing">>}
ReferencesFoundMessages == {"References section found"}

ReferencesRule(report, text, severity) ==
  IF Mentions(text, "References")
    THEN PassedOnce(report, ReferencesMissingIds, ReferencesFoundMessages)
    ELSE FlaggedOnce(report, ReferencesMissingIds, ReferencesFoundMessages, severity)

\* C15 as stated: a text with a References section gives the section-found
\* passing finding and no references-missing issue; a text without one gives
\* exactly one references-missing issue, of severity suggestion.
C15_ReferencesSuggestion ==
  /\ response.kind = "report" =>
       ReferencesRule(response.report, ServerText, "suggestion")
  /\ analysis.variant # 0 =>
       ReferencesRule(analysis.report, ClientText, "suggestion")

\* C15, amended: a text with a References section gives the section-found
\* passing finding and no references-missing issue; a text without one gives
\* exactly one references-missing issue, of severity error from the server
\* validator and of severity warning from the client validator.
C15_ReferencesRule ==
  /\ response.kind = "report" =>
       ReferencesRule(response.report, ServerText, "error")
  /\ analysis.variant # 0 =>
       ReferencesRule(analysis.report, ClientText, "warning")

\* A text without a References section, flagged by the route and the client.
C15_Witness ==
  /\ ~Mentions(ServerText, "References")
  /\ response.kind = "report"
  /\ FlaggedOnce(response.report, ReferencesMissingIds, ReferencesFoundMessages, "error")
  /\ analysis.variant # 0
  /\ FlaggedOnce(analysis.report, ReferencesMissingIds, ReferencesFoundMessages,
                 "warning")

AuthorMissingIds == {<<"author-missing">>}
AuthorFoundMessages == {"Author information found", "Author information detected"}

\* The first page (the first `limit` characters) matches one of the three
\* author patterns.
AuthorOnFirstPage(text, limit) == HasAuthor(WholePrefix(text, limit))

AuthorRule(report, found, severity) ==
  IF found THEN PassedOnce(report, AuthorMissingIds, AuthorFoundMessages)
  ELSE FlaggedOnce(report, AuthorMissingIds, AuthorFoundMessages, severity)

\* C16 as stated: every report contains exactly one author finding, a passing
\* finding when the first page matches an author pattern and otherwise an
\* author-missing issue of severity warning.
C16_AuthorWarning ==
  /\ response.kind = "report" =>
       AuthorRule(response.report, AuthorOnFirstPage(ServerText, 1500), "warning")
  /\ analysis.variant # 0 =>
       AuthorRule(analysis.report, AuthorOnFirstPage(ClientText, 1000), "warning")

\* C16, amended: every report contains exactly one author finding, a passing
\* finding when the first page matches an author pattern and otherwise an
\* author-missing issue, of severity error from the server validator and of
\* severity warning from the client validator.
C16_AuthorRule ==
  /\ response.kind = "report" =>
       AuthorRule(response.report, AuthorOnFirstPage(ServerText, 1500), "error")
  /\ analysis.variant # 0 =>
       AuthorRule(analysis.report, AuthorOnFirstPage(ClientText, 1000), "warning")

\* A text that names its author only after the first page, flagged by the
\* route and by the client.
C16_Witness ==
  /\ Mentions(ServerText, "ByName")
  /\ ~AuthorOnFirstPage(ServerText, 1500)
  /\ response.kind = "report"
  /\ FlaggedOnce(response.report, AuthorMissingIds, AuthorFoundMessages, "error")
  /\ analysis.variant # 0
  /\ FlaggedOnce(analysis.report, AuthorMissingIds, AuthorFoundMessages, "warning")

AbstractIssueIds ==
  {<<"abstract-missing">>, <<"abstract-too-long">>, <<"abstract-too-short">>,
   <<"abstract-long">>, <<"abstract-short">>}
AbstractFoundMessages == {"Abstract section found"}
AbstractPassMessages ==
  AbstractFoundMessages
    \cup {"Abstract word count is appropriate", "Abstract length appropriate"}

\* The abstract rule left nothing in the report.
AbstractSilent(report) ==
  /\ IssuesWithId(report, AbstractIssueIds) = {}
  /\ PassesWith(report, AbstractPassMessages) = {}

AbstractFound(report) ==
  /\ Cardinality(PassesWith(report, AbstractFoundMessages)) = 1
  /\ IssuesWithId(report, {<<"abstract-missing">>}) = {}

\* Exactly one abstract-missing issue, a suggestion, and no other finding of
\* the abstract rule.
AbstractMissed(report) ==
  /\ Cardinality(IssuesWithId(report, AbstractIssueIds)) = 1
  /\ \A j \in IssuesWithId(report, AbstractIssueIds) :
         /\ report.issues[j].id = <<"abstract-missing">>
         /\ report.issues[j].severity = "suggestion"
  /\ PassesWith(report, AbstractPassMessages) = {}

Members(findings) == {findings[i] : i \in DOMAIN findings}

\* Every rule of the validator at work has run.
AllRulesRan ==
  \/ run.engine = "server" /\ Ran = ServerRuleNames
  \/ run.engine \in {"client", "clientByCount"} /\ Ran = ClientRuleNames

\* The report of the declared sequence for the request.
DeclaredReport ==
  CASE run.engine = "server" ->
         ValidateDocument(request.pkg, request.filename).report
    [] run.engine = "client" ->
         Analyze(NewInstance, DocDataOf(request.pkg, request.filename)).report
    [] OTHER ->
         AnalyzeByCount(NewInstance, DocDataOf(request.pkg, request.filename)).report

\* C18. For a fixed document, the rules run in any permutation of the
\* declared order give the set of passing findings, the set of issues and the
\* score of the declared order; only the order inside the two lists may differ.
C18_OrderIndependent ==
  AllRulesRan =>
    LET declared == DeclaredReport
    IN /\ Members(run.results.issues) = Members(declared.issues)
       /\ Members(run.results.passing) = Members(declared.passing)
       /\ Len(run.results.issues) = Len(declared.issues)
       /\ Len(run.results.passing) = Len(declared.passing)
       /\ CalcScore(run.results.issues) = declared.score

\* The client's rules have all run, the page-number rule first and the font
\* rule last, and the lists are not those of the declared order.
C18_Witness ==
  /\ run.engine = "client"
  /\ AllRulesRan
  /\ run.ran[1] = "PageNumbers"
  /\ run.ran[8] = "Font"
  /\ run.results.issues # <<>>
  /\ run.results.passing # DeclaredReport.passing

\* The reports the validators return for the files the page can hold.
ReportsAsReturned ==
  {Analyze(NewInstance, DocDataOf(f.pkg, f.filename)).report :
     f \in {g \in UiFiles : CanExtract(g.pkg)}}
    \cup {AnalyzeByCount(NewInstance, DocDataOf(f.pkg, f.filename)).report :
            f \in {g \in UiFiles : CanExtract(g.pkg)}}
    \cup {ValidateDocument(f.pkg, f.filename).report :
            f \in {g \in UiFiles : ~ValidateDocument(g.pkg, g.filename).threw}}

\* The issues of the report held whose id is not dismissed.
Shown == {j \in DOMAIN ui.results.report.issues :
            ui.results.report.issues[j].id \notin ui.dismissedIssues}

ShownOf(severity) ==
  Cardinality({j \in Shown : ui.results.report.issues[j].severity = severity})

\* C20. Whatever has been dismissed, the report held in results is as the
\* validator returned it; the displayed score is max(0, 100 - 15E - 8W - 3S)
\* over the issues whose id is not dismissed, it is never lower than the
\* score of the report, and equal to it when nothing is dismissed.
C20_DismissalIsFilter ==
  ui.results.kind # "none" =>
    /\ ui.results.report \in ReportsAsReturned
    /\ CalculateScore(ui) =
         Max(0, 100 - 15 * ShownOf("error") - 8 * ShownOf("warning")
                    - 3 * ShownOf("suggestion"))
    /\ CalculateScore(ui) >= ui.results.report.score
    /\ ui.dismissedIssues = {} => CalculateScore(ui) = ui.results.report.score

\* A report is held, an error and a suggestion are dismissed, and the score
\* displayed is above that of the report.
C20_Witness ==
  /\ ui.results.kind # "none"
  /\ \E j, k \in DOMAIN ui.results.report.issues :
        /\ ui.results.report.issues[j].severity = "error"
        /\ ui.results.report.issues[k].severity = "suggestion"
        /\ {ui.results.report.issues[j].id, ui.results.report.issues[k].id}
             \subseteq ui.dismissedIssues
  /\ Shown # {}
  /\ CalculateScore(ui) > ui.results.report.score

Severities == {"error", "warning", "suggestion"}

\* The reports the state holds.
HeldReports ==
  (IF response.kind = "report" THEN {response.report} ELSE {})
    \cup (IF analysis.variant # 0 THEN {analysis.report} ELSE {})

\* C19. In every report each issue has a severity that is one of error,
\* warning and suggestion, so that the three score terms count every issue
\* once, and each passing finding carries no id and no severity.
C19_SeverityPartition ==
  \A r \in HeldReports :
    /\ \A j \in DOMAIN r.issues : r.issues[j].severity \in Severities
    /\ Tally(r.issues, "error") + Tally(r.issues, "warning")
         + Tally(r.issues, "suggestion") = Len(r.issues)
    /\ \A j \in DOMAIN r.passing : DOMAIN r.passing[j] \cap {"id", "severity"} = {}

\* A server report and a client report are held, each with issues of the
\* three severities and with passing findings.
C19_Witness ==
  /\ response.kind = "report"
  /\ analysis.variant # 0
  /\ \A r \in HeldReports :
        /\ \A sev \in Severities : Tally(r.issues, sev) > 0
        /\ r.passing # <<>>

\* One of the three page-number signals (a PAGE field code, a w:pgNum element,
\* the PAGE marker in a field instruction) is in document.xml, the header or
\* the footer.
PageSignalPresent ==
  (request.pkg.document.signals \cup request.pkg.header.signals
     \cup request.pkg.footer.signals)
    \cap {"fieldPAGE", "pgNum", "simplePAGE"} # {}

PagesReported(report) == PassesWith(report, PagePassMessages) # {}

\* C21. Page numbers are detected if and only if one of the three signals is
\* in the main document part, the header or the footer; the letters "page" in
\* ordinary text and a field character without a PAGE instruction are not
\* detected.
C21_PageDetection ==
  /\ response.kind = "report" =>
       (PagesReported(response.report) <=> PageSignalPresent)
  /\ analysis.variant # 0 =>
       (PagesReported(analysis.report) <=> PageSignalPresent)

\* The style of the first paragraph of the request.
FirstStyle == request.pkg.document.paras[1].style

\* The style name ends with digits; it carries no digit.
EndsWithDigits(style) == style.digits >= 0 /\ style.suffix = ""
CarriesNoDigit(style) == style.digits < 0

\* Digits follow the word "heading" after nothing but white space.
DigitsFollowWord(style) == style.digits >= 0 /\ style.sep \in {"", " "}

HeadingsExtracted == run.engine \in {"serverHeadings", "clientHeadings"}

\* The client's pattern wants Heading or heading; the server lower-cases.
Recognised ==
  run.engine = "serverHeadings" \/ FirstStyle.word \in {"Heading", "heading"}

\* C22 as stated: the level of an extracted heading is the integer formed by
\* the digits that end its style name, and 1 when the name carries no digit.
C22_TrailingDigits ==
  HeadingsExtracted /\ run.headings # <<>> =>
    /\ EndsWithDigits(FirstStyle) => run.headings[1].level = FirstStyle.digits
    /\ CarriesNoDigit(FirstStyle) => run.headings[1].level = 1

\* C22, amended: the level of an extracted heading is the integer formed by
\* the digits that follow the word "heading" in its style name, after optional
\* white space and whatever comes after them, and 1 when no digits follow
\* there; every style name with Heading or heading is extracted by both
\* extractors (so with the same level), one with other capitals only by the
\* DOM-based extractor.
C22_HeadingLevel ==
  HeadingsExtracted =>
    /\ Recognised <=> run.headings # <<>>
    /\ run.headings # <<>> =>
         run.headings[1].level =
           (IF DigitsFollowWord(FirstStyle) THEN FirstStyle.digits ELSE 1)

\* The style "Heading-2", extracted by the server with level 1.
C22_Witness ==
  /\ run.engine = "serverHeadings"
  /\ FirstStyle = Style("Heading", "-", 2, "")
  /\ run.headings # <<>>
  /\ run.headings[1].level = 1

Weight(severity) ==
  CASE severity = "error" -> 15
    [] severity = "warning" -> 8
    [] OTHER -> 3

\* The deductions the page counts for a report when `dismissed` is dismissed,
\* before clamping.
ShownDeductions(issues, dismissed) ==
  15 * Len(ActiveIssues(issues, dismissed, "error"))
    + 8 * Len(ActiveIssues(issues, dismissed, "warning"))
    + 3 * Len(ActiveIssues(issues, dismissed, "suggestion"))

\* C23. Within a report all issue ids are pairwise distinct; hence dismissing
\* one id hides exactly one issue and changes the deductions of the displayed
\* score by that issue's weight.
C23_DistinctIds ==
  \A r \in HeldReports :
    /\ \A j, k \in DOMAIN r.issues : r.issues[j].id = r.issues[k].id => j = k
    /\ \A j \in DOMAIN r.issues :
         ShownDeductions(r.issues, {r.issues[j].id})
           = ShownDeductions(r.issues, {}) - Weight(r.issues[j].severity)

\* A server report and a client report with two headings that are not bold:
\* the same kind of issue twice, told apart by the index.
C23_Witness ==
  /\ response.kind = "report"
  /\ analysis.variant = 1
  /\ \A r \in HeldReports :
        {<<"heading-not-bold", 0>>, <<"heading-not-bold", 1>>}
          \subseteq {r.issues[j].id : j \in DOMAIN r.issues}

\* The ids toggleDismiss can be called with: those of the report held.
HeldIds ==
  {ui.results.report.issues[j].id : j \in DOMAIN ui.results.report.issues}

\* C24. toggleDismiss is an involution on the dismissed set: two calls with
\* the same id restore the set, one call changes the membership of that id
\* and of no other, and calls with different ids commute.
C24_ToggleInvolution ==
  LET D == ui.dismissedIssues
  IN \A a \in HeldIds :
       /\ Toggled(Toggled(D, a), a) = D
       /\ (Toggled(D, a) \ D) \cup (D \ Toggled(D, a)) = {a}
       /\ \A b \in HeldIds : Toggled(Toggled(D, a), b) = Toggled(Toggled(D, b), a)

\* Some ids of the report held are dismissed and some are not, so that calls
\* of both branches are at hand.
C24_Witness ==
  /\ ui.results.kind # "none"
  /\ ui.dismissedIssues # {}
  /\ HeldIds \ ui.dismissedIssues # {}
  /\ Cardinality(ui.dismissedIssues) >= 2

\* What handleFileSelect leaves behind, for every file it can be called with.
FileSelectFrame ==
  \A f \in UiFiles :
     LET after == AfterFileSelect(ui, f)
     IN /\ after.results = NoResults
        /\ after.error = ""
        /\ after.dismissedIssues = {}
        /\ after.file = f
        /\ after.loading = ui.loading

\* C25. handleFileSelect resets the session: after it results is null, error
\* is null, dismissedIssues is empty, file is the selected file and loading is
\* as it was; so what was dismissed for one document never carries over to the
\* report of the next selected document.
C25_SelectionResets ==
  /\ FileSelectFrame
  /\ ui.results.kind # "none" =>
       ui.dismissedFor \subseteq {ui.results.report.filename}

\* The report the page's validator returns for a file.
ReportOf(page, f) ==
  CASE page = "client" ->
         Analyze(NewInstance, DocDataOf(f.pkg, f.filename)).report
    [] page = "clientByCount" ->
         AnalyzeByCount(NewInstance, DocDataOf(f.pkg, f.filename)).report
    [] OTHER -> ValidateDocument(f.pkg, f.filename).report

\* C26. Whenever results is non-null it is the report of the currently
\* selected file: a validation still in flight when another file is selected
\* never stores the report of the previous file.
C26_NoStaleResult ==
  ui.results.kind # "none" =>
    /\ ui.file.set
    /\ ui.results.report.filename = ui.file.filename
    /\ ui.results.report = ReportOf(ui.page, ui.file)

\* C27. results and error are never both non-null: a failed attempt does not
\* leave the report of an earlier attempt next to the new error message.
C27_ReportOrError == ~(ui.results.kind # "none" /\ ui.error # "")

\* C28. Every attempt that sets loading to true sets it back to false in the
\* end, whether it succeeds, the route answers with another status or an
\* exception is thrown; and when loading returns to false the attempt has set
\* results or error.
C28_LoadingEnds ==
  /\ ui.loading ~> ~ui.loading
  /\ [][ui.loading /\ ~ui'.loading =>
          /\ ui.inflight.set
          /\ ui'.results.kind # "none" \/ ui'.error # ""]_vars

\* An attempt has ended with an error, another with a report.
C28_Witness ==
  /\ ~ui.loading
  /\ ~ui.inflight.set
  /\ ui.error # ""
  /\ ui.results.kind # "none"

\* The handler answered on one of the paths that follow form.parse: 200 after
\* a validation, 400 after a wrong extension, 500 after validateDocument threw.
AnsweredAfterUpload ==
  \/ response.status \in {200, 400}
  \/ response.status = 500 /\ extracted

\* C29. For every POST request whose upload was parsed to a temporary file,
\* the file has been deleted when the handler sends its response: 200 after a
\* validation, 400 after a wrong extension, 500 after validateDocument throws.
C29_TempFileDeleted == AnsweredAfterUpload => ~tmpFile

\* The hierarchy issues of a report.
HierarchyIssues(report) ==
  {j \in DOMAIN report.issues : Head(report.issues[j].id) = "heading-hierarchy"}

\* The 0-based indexes i in 1..n-1 of the content headings whose level is more
\* than one below that of the heading before (content[i + 1] is c[i]).
SkippedAt(content) ==
  {i \in 1..(Len(content) - 1) : content[i + 1].level > content[i].level + 1}

\* C30. For the content headings c[0..n-1] in document order the server
\* report holds a 'Heading level skipped' issue of severity error with id
\* heading-hierarchy-i for exactly the i in 1..n-1 with
\* level(c[i]) > level(c[i-1]) + 1; a move to a shallower level and a first
\* content heading of any level give none.
C30_HierarchySkips ==
  response.kind = "report" =>
    LET report == response.report
        skipped == SkippedAt(ServerContent)
    IN /\ {report.issues[j].id : j \in HierarchyIssues(report)}
            = {<<"heading-hierarchy", i>> : i \in skipped}
       /\ Cardinality(HierarchyIssues(report)) = Cardinality(skipped)
       /\ \A j \in HierarchyIssues(report) :
              /\ report.issues[j].severity = "error"
              /\ report.issues[j].message = "Heading level skipped"

\* An outline that starts at level 3, has a reserved title between two
\* content headings, moves to a shallower level and then skips a level: the
\* one issue is that of the last heading.
C30_Witness ==
  /\ response.kind = "report"
  /\ Len(request.pkg.document.paras) = 4
  /\ Len(ServerContent) = 3
  /\ ServerContent[1].level = 3
  /\ ServerContent[2].level = 1
  /\ {response.report.issues[j].id : j \in HierarchyIssues(response.report)}
       = {<<"heading-hierarchy", 2>>}

====
